---- MODULE Spec2Model ----
(***************************************************************************)
(* Model of the job-scraper pipeline:                                      *)
(*   company_data_retriever.py  retrieve_companies_from_sheet              *)
(*   career_site_discoverer.py  is_valid_url, get_base_domain,             *)
(*                              find_career_page_url                       *)
(*   orchestrator.py            run_orchestration                          *)
(*   job_listing_scraper.py     scrape_company_jobs,                       *)
(*                              scrape_company_jobs_with_playwright, main  *)
(*                                                                         *)
(* Text is modelled as a sequence of atoms (short indivisible fragments    *)
(* such as "https", ":", "/", "career", "s"); Python's substring test      *)
(* `a in b` is the contiguous-subsequence test on atoms, str.lower() maps  *)
(* atoms, str.split() cuts at the " " atoms.  The atoms are cut so that    *)
(* every keyword the code looks for is a sequence of atoms and a keyword   *)
(* that is part of another (sign in designer, job in jobs) is a            *)
(* subsequence of it.                                                      *)
(***************************************************************************)
EXTENDS Integers, Sequences, FiniteSets, TLC

VARIABLES
    sheet,                     \* data rows of the spreadsheet (header row already cut)
    companies_data,            \* what retrieve_companies_from_sheet returned to the run
    \* ---- orchestrator.run_orchestration / find_career_page_url
    o_pc,                      \* position of run_orchestration
    o_i,                       \* index of the company the for loop is at
    discovered_pages,          \* the list run_orchestration returns
    d_pc,                      \* position of the running find_career_page_url call
    d_q,                       \* number of search queries issued by the running call
    d_resp,                    \* response of the search provider to the last query
    d_found,                   \* value returned by the call
    d_errors,                  \* number of queries of the call that logged an error
    net_log,                   \* requests.get / time.sleep events of the running call
    \* ---- job_listing_scraper.main and the two scrape functions
    m_pc,                      \* position of main
    m_i,                       \* index of the company the for loop is at
    scraped_data,              \* the list main writes out
    global_found_listings_ids, \* module-level dedup set
    p_pc,                      \* position of the running playwright call
    p_company,                 \* [name, url] of the running playwright call
    browser,                   \* "none" | "open" | "closed": the launched browser
    page_count,                \* Google pagination counter
    listings,                  \* listings of the running playwright call
    current_processed_urls,    \* per-call URL set of the running playwright call
    p_exit,                    \* how the playwright call left its extraction code
    p_result,                  \* the value of the call's return statement
    p_wait,                    \* "none" | "ok" | "timeout": the wait after page.goto
    open_sessions,             \* browsers launched and not closed, process-wide
    served                     \* response the site gives to every fetch (repeat runs)

discVars == <<o_pc, o_i, discovered_pages, d_pc, d_q, d_resp, d_found, d_errors, net_log>>
scrapeVars == <<m_pc, m_i, scraped_data, global_found_listings_ids, p_pc, p_company,
                browser, page_count, listings, current_processed_urls, p_exit,
                p_result, p_wait, open_sessions, served>>
vars == <<sheet, companies_data, discVars, scrapeVars>>

-----------------------------------------------------------------------------
(* Bounds of the model *)
MaxRows == 2      \* rows in the sheet
MaxLinks == 2     \* result links parsed out of one search response
MaxElems == 2     \* elements one selector matches on one page

-----------------------------------------------------------------------------
(* Python values *)
None == <<"<None>">>
Truthy(x) == x # None /\ x # <<>>

(* str.lower() *)
LowerAtom(a) ==
    CASE a = "Acme" -> "acme"
      [] a = "Foo" -> "foo"
      [] a = "Senior" -> "senior"
      [] a = "Software" -> "software"
      [] a = "Engineer" -> "engineer"
      [] a = "Analyst" -> "analyst"
      [] a = "Privacy" -> "privacy"
      [] a = "Policy" -> "policy"
      [] a = "Job" -> "job"
      [] a = "Help" -> "help"
      [] a = "De" -> "de"
      [] a = "Re" -> "re"
      [] a = "Manager" -> "manager"
      [] a = "Career" -> "career"
      [] OTHER -> a
Lower(s) == [i \in 1..Len(s) |-> LowerAtom(s[i])]

(* `sub in s` *)
Contains(s, sub) ==
    \E i \in 1..(Len(s) - Len(sub) + 1) : SubSeq(s, i, i + Len(sub) - 1) = sub
HasAtom(s, a) == \E i \in 1..Len(s) : s[i] = a
StartsWith(s, pre) == Len(s) >= Len(pre) /\ SubSeq(s, 1, Len(pre)) = pre

(* str.strip(chars) *)
RECURSIVE LStrip(_, _)
LStrip(s, chars) ==
    IF s # <<>> /\ Head(s) \in chars THEN LStrip(Tail(s), chars) ELSE s
RECURSIVE RStrip(_, _)
RStrip(s, chars) ==
    IF s # <<>> /\ s[Len(s)] \in chars THEN RStrip(SubSeq(s, 1, Len(s) - 1), chars) ELSE s
Strip(s, chars) == RStrip(LStrip(s, chars), chars)
Whitespace == {" "}

(* index of the first atom of s that is in set, Len(s)+1 when there is none *)
RECURSIVE FirstIn(_, _, _)
FirstIn(s, set, i) ==
    IF i > Len(s) THEN i ELSE IF s[i] \in set THEN i ELSE FirstIn(s, set, i + 1)

-----------------------------------------------------------------------------
(* urllib.parse.urlparse, the two components the code reads *)
Delims == {"/", "?", "#"}
NotInScheme == Delims \cup {":", " ", "[", "]"}

UrlScheme(s) ==
    LET c == FirstIn(s, {":"}, 1) IN
    IF c > 1 /\ c <= Len(s) /\ \A j \in 1..(c - 1) : s[j] \notin NotInScheme
    THEN SubSeq(s, 1, c - 1) ELSE <<>>
UrlRest(s) ==
    IF UrlScheme(s) = <<>> THEN s ELSE SubSeq(s, Len(UrlScheme(s)) + 2, Len(s))
UrlNetloc(s) ==
    LET r == UrlRest(s) IN
    IF StartsWith(r, <<"/", "/">>)
    THEN SubSeq(r, 3, FirstIn(r, Delims, 3) - 1) ELSE <<>>
UrlPath(s) ==
    LET r == UrlRest(s) IN
    IF StartsWith(r, <<"/", "/">>)
    THEN SubSeq(r, FirstIn(r, Delims, 3), FirstIn(r, {"?", "#"}, 3) - 1)
    ELSE SubSeq(r, 1, FirstIn(r, {"?", "#"}, 1) - 1)
(* urlparse raises ValueError on a bracketed host that is not closed *)
UrlParseRaises(s) == HasAtom(UrlNetloc(s), "[") /\ ~HasAtom(UrlNetloc(s), "]")

(* variant: only the http scheme is taken as a scheme *)
is_valid_url_http_only(url) ==
    IF UrlParseRaises(url) THEN FALSE
    ELSE UrlScheme(url) = <<"http">> /\ UrlNetloc(url) # <<>>

(* variant: a scheme alone makes the URL valid *)
is_valid_url_scheme_only(url) ==
    IF UrlParseRaises(url) THEN FALSE
    ELSE UrlScheme(url) # <<>>

(* lines 9-15 *)
is_valid_url(url) ==
    IF UrlParseRaises(url) THEN FALSE
    ELSE UrlScheme(url) # <<>> /\ UrlNetloc(url) # <<>>

(* lines 17-26: the host of the URL without a leading "www." *)
get_base_domain(url) ==
    IF UrlParseRaises(url) THEN <<>>
    ELSE LET netloc == UrlNetloc(url) IN
         IF StartsWith(netloc, <<"www.">>) THEN Tail(netloc) ELSE netloc

-----------------------------------------------------------------------------
(* company_data_retriever.retrieve_companies_from_sheet: rows -> records *)
RECURSIVE retrieve_companies_from_sheet(_)
retrieve_companies_from_sheet(rows) ==
    IF rows = <<>> THEN <<>>
    ELSE LET row == Head(rows)
             rest == retrieve_companies_from_sheet(Tail(rows))
         IN IF Len(row) >= 2 /\ Strip(row[1], Whitespace) # <<>>
            THEN <<[name |-> Strip(row[1], Whitespace),
                    direct_career_url |->
                        IF Len(Strip(row[2], Whitespace)) > 0
                        THEN Strip(row[2], Whitespace) ELSE None]>> \o rest
            ELSE rest

-----------------------------------------------------------------------------
(* career_site_discoverer.find_career_page_url *)
(* variant: the last query of the list is missing *)
QuerySuffixesFour ==
    << <<" ", "career", "s">>, <<" ", "job", "s">>, <<" ", "job", " ", "opening", "s">>,
       <<" ", "recruiting">> >>

QuerySuffixes ==
    << <<" ", "career", "s">>, <<" ", "job", "s">>, <<" ", "job", " ", "opening", "s">>,
       <<" ", "recruiting">>, <<" ", "career", " ", "opportunities">> >>
search_queries(company_name) ==
    [k \in 1..Len(QuerySuffixes) |-> company_name \o QuerySuffixes[k]]

RemoveSpaces(s) == SelectSeq(s, LAMBDA a : a # " ")
company_slug(company_name) == RemoveSpaces(Lower(company_name))
likely_domains(company_name) ==
    { company_slug(company_name) \o <<tld>> : tld \in {".com", ".org", ".net"} }

(* line 96: the career-page keyword test on the lowercased href *)
KeywordTest(href_lower) ==
    \/ Contains(href_lower, <<"career", "s">>)
    \/ Contains(href_lower, <<"job", "s">>)
    \/ Contains(href_lower, <<"employment">>)
    \/ Contains(href_lower, <<"hiring">>)

(* variant: any .com, .org or .net domain is taken as a likely company domain *)
is_likely_company_domain_any_tld(href, company_name) ==
    LET base_href_domain == get_base_domain(href) IN
    \/ \E tld \in {".com", ".org", ".net"} : Contains(base_href_domain, <<tld>>)
    \/ Contains(base_href_domain, company_slug(company_name))
    \/ Contains(Lower(href), company_slug(company_name))

(* lines 98-106 *)
is_likely_company_domain(href, company_name) ==
    LET base_href_domain == get_base_domain(href) IN
    \/ \E dom \in likely_domains(company_name) : Contains(base_href_domain, dom)
    \/ Contains(base_href_domain, company_slug(company_name))
    \/ Contains(Lower(href), company_slug(company_name))

(* variant: no early return, the last passing link wins *)
RECURSIVE ExamineLinksLast(_, _, _)
ExamineLinksLast(links, i, company_name) ==
    IF i > Len(links) THEN None
    ELSE LET href == links[i]
             later == ExamineLinksLast(links, i + 1, company_name)
         IN IF later # None THEN later
            ELSE IF Truthy(href) /\ is_valid_url(href) /\ KeywordTest(Lower(href))
                    /\ is_likely_company_domain(href, company_name)
                 THEN href ELSE None

(* lines 83-111: the loop over the links of one response; the href returned,
   None when the loop runs to its end *)
RECURSIVE ExamineLinks(_, _, _)
ExamineLinks(links, i, company_name) ==
    IF i > Len(links) THEN None
    ELSE LET href == links[i] IN
         IF ~Truthy(href) \/ ~is_valid_url(href)
         THEN ExamineLinks(links, i + 1, company_name)
         ELSE IF KeywordTest(Lower(href)) /\ is_likely_company_domain(href, company_name)
              THEN href
              ELSE ExamineLinks(links, i + 1, company_name)

-----------------------------------------------------------------------------
(* Inputs of the discovery runs *)
SeqsUpTo(S, n) == UNION { [1..k -> S] : k \in 0..n }

Acme == <<"Acme">>
Foo == <<"Foo">>
KnownAcmeUrl == <<"https", ":", "/", "/", "career", "s", ".", "acme", ".com", "/">>
NoSchemeUrl == <<"foo", "job", "s", ".com", "/", "career", "s">>
LinkAcmeList == <<"https", ":", "/", "/", "acme", ".com", "/", "career", "s", "/", "list">>
LinkUnrelated == <<"https", ":", "/", "/", "unrelated", ".com", "/", "career", "s">>
LinkFooOpen == <<"http", ":", "/", "/", "foo", "job", "s", ".com", "/", "career", "s", "/", "open">>
LinkFooAbout == <<"http", ":", "/", "/", "foo", "job", "s", ".com", "/", "about">>
LinkAcmeNoScheme == <<"acme", ".com", "/", "career", "s">>
LinkSubdomain == <<"https", ":", "/", "/", "www.", "sub", ".", "example", ".com", "/",
                   "career", "s">>

DiscRows ==
    { <<Acme, KnownAcmeUrl>>,           \* known, valid URL
      <<Acme, <<>>>>,                   \* empty URL cell
      <<Foo, <<" ">>>>,                 \* blank URL cell
      <<Foo, NoSchemeUrl>>,             \* URL cell that is not a valid URL
      <<<<" ">>, KnownAcmeUrl>> }       \* blank name cell
DiscSheets == SeqsUpTo(DiscRows, MaxRows)

LinkUniverse ==
    { LinkAcmeList, LinkUnrelated, LinkFooOpen, LinkFooAbout, LinkAcmeNoScheme,
      LinkSubdomain }
(* what requests.get + raise_for_status + BeautifulSoup hand to the link loop:
   the hrefs of a.result__a in page order, or an exception *)
OkResponses == { [kind |-> "ok", links |-> l] : l \in SeqsUpTo(LinkUniverse, MaxLinks) }
ErrResponses == { [kind |-> "RequestException", links |-> <<>>],
                  [kind |-> "Exception", links |-> <<>>] }
Responses == OkResponses \cup ErrResponses
NoResponse == [kind |-> "none", links |-> <<>>]

-----------------------------------------------------------------------------
(* orchestrator.run_orchestration, lines 29-42 *)
OrchStart ==
    /\ o_pc = "start"
    /\ companies_data' = retrieve_companies_from_sheet(sheet)
    /\ o_pc' = IF companies_data' = <<>> THEN "done" ELSE "loop"
    /\ UNCHANGED <<sheet, o_i, discovered_pages, d_pc, d_q, d_resp, d_found, d_errors,
                   net_log, scrapeVars>>

(* lines 45-57 and find_career_page_url lines 28-67: the loop takes the next
   company and calls discovery, which returns the known URL at once or starts
   the search *)
OrchCall ==
    /\ o_pc = "loop" /\ d_pc = "idle"
    /\ o_i <= Len(companies_data)
    /\ LET company_name == companies_data[o_i].name
           direct_url == companies_data[o_i].direct_career_url
       IN IF ~Truthy(company_name)
          THEN /\ o_i' = o_i + 1
               /\ UNCHANGED <<d_pc, d_found>>
          ELSE /\ o_i' = o_i
               /\ IF Truthy(direct_url) /\ is_valid_url(direct_url)
                  THEN d_pc' = "returned" /\ d_found' = direct_url
                  ELSE d_pc' = "searching" /\ d_found' = None
    /\ d_q' = 0 /\ d_resp' = NoResponse /\ d_errors' = 0 /\ net_log' = <<>>
    /\ UNCHANGED <<sheet, companies_data, o_pc, discovered_pages, scrapeVars>>

(* variant: an exception of one query ends the call *)
PcAfterQueryAbort(resp, hit) ==
    IF hit # None \/ resp.kind # "ok" THEN "returned" ELSE "searching"

(* lines 111-118: the call returns on a hit; an exception of the request or of
   the parse is logged and the loop goes on *)
PcAfterQuery(resp, hit) ==
    IF hit # None THEN "returned" ELSE "searching"

(* variant: the pause is taken only after a request that did not raise *)
QueryEventsPauseOnSuccess(query, resp) ==
    IF resp.kind = "ok"
    THEN << [op |-> "get", query |-> query], [op |-> "sleep", query |-> query] >>
    ELSE << [op |-> "get", query |-> query] >>

(* lines 74 and 117-118: the request of one iteration and the sleep of its
   finally clause, which runs whatever the try block did *)
QueryEvents(query, resp) ==
    << [op |-> "get", query |-> query], [op |-> "sleep", query |-> query] >>

(* lines 69-118: one iteration of the query loop, with its finally *)
DiscQuery(resp) ==
    /\ d_pc = "searching"
    /\ d_q < Len(QuerySuffixes)
    /\ LET company_name == companies_data[o_i].name
           query == search_queries(company_name)[d_q + 1]
           hit == IF resp.kind = "ok"
                  THEN ExamineLinks(resp.links, 1, company_name) ELSE None
       IN /\ d_q' = d_q + 1
          /\ d_resp' = resp
          /\ d_errors' = IF resp.kind = "ok" THEN d_errors ELSE d_errors + 1
          /\ net_log' = net_log \o QueryEvents(query, resp)
          /\ d_found' = hit
          /\ d_pc' = PcAfterQuery(resp, hit)
    /\ UNCHANGED <<sheet, companies_data, o_pc, o_i, discovered_pages, scrapeVars>>

(* lines 120-121 *)
DiscExhausted ==
    /\ d_pc = "searching"
    /\ d_q = Len(QuerySuffixes)
    /\ d_pc' = "returned" /\ d_found' = None
    /\ UNCHANGED <<sheet, companies_data, o_pc, o_i, discovered_pages, d_q, d_resp,
                   d_errors, net_log, scrapeVars>>

(* variant: a company whose discovery found nothing gets no entry *)
OrchRecordFoundOnly ==
    /\ o_pc = "loop" /\ d_pc = "returned"
    /\ LET company_name == companies_data[o_i].name IN
       discovered_pages' =
           IF Truthy(d_found)
           THEN Append(discovered_pages,
                       [company_name |-> company_name, career_page_url |-> d_found,
                        status |-> "SUCCESS"])
           ELSE discovered_pages
    /\ o_i' = o_i + 1
    /\ d_pc' = "idle"
    /\ UNCHANGED <<sheet, companies_data, o_pc, d_q, d_resp, d_found, d_errors, net_log,
                   scrapeVars>>

(* lines 59-72: the entry appended for the finished call.  No statement of
   find_career_page_url raises for a text name, so lines 73-79 are not reached. *)
OrchRecord ==
    /\ o_pc = "loop" /\ d_pc = "returned"
    /\ LET company_name == companies_data[o_i].name IN
       discovered_pages' = Append(discovered_pages,
           IF Truthy(d_found)
           THEN [company_name |-> company_name, career_page_url |-> d_found,
                 status |-> "SUCCESS"]
           ELSE [company_name |-> company_name, career_page_url |-> None,
                 status |-> "FAILED_DISCOVERY"])
    /\ o_i' = o_i + 1
    /\ d_pc' = "idle"
    /\ UNCHANGED <<sheet, companies_data, o_pc, d_q, d_resp, d_found, d_errors, net_log,
                   scrapeVars>>

(* lines 81-90 *)
OrchSave ==
    /\ o_pc = "loop" /\ d_pc = "idle"
    /\ o_i > Len(companies_data)
    /\ o_pc' = "done"
    /\ UNCHANGED <<sheet, companies_data, o_i, discovered_pages, d_pc, d_q, d_resp,
                   d_found, d_errors, net_log, scrapeVars>>

ScrapeIdle ==
    /\ m_pc = "off" /\ m_i = 1 /\ scraped_data = <<>>
    /\ global_found_listings_ids = {}
    /\ p_pc = "idle" /\ p_company = None /\ browser = "none" /\ page_count = 0
    /\ listings = <<>> /\ current_processed_urls = {} /\ p_exit = "none"
    /\ p_result = None /\ p_wait = "none" /\ open_sessions = 0 /\ served = None

DiscIdle ==
    /\ o_pc = "off" /\ o_i = 1 /\ discovered_pages = <<>>
    /\ d_pc = "idle" /\ d_q = 0 /\ d_resp = NoResponse /\ d_found = None
    /\ d_errors = 0 /\ net_log = <<>>

(* one discovery run per sheet of a single row *)
InitDisc ==
    /\ sheet \in { <<r>> : r \in DiscRows }
    /\ companies_data = <<>>
    /\ o_pc = "start" /\ o_i = 1 /\ discovered_pages = <<>>
    /\ d_pc = "idle" /\ d_q = 0 /\ d_resp = NoResponse /\ d_found = None
    /\ d_errors = 0 /\ net_log = <<>>
    /\ ScrapeIdle

NextDisc ==
    \/ OrchStart
    \/ OrchCall
    \/ \E resp \in Responses : DiscQuery(resp)
    \/ DiscExhausted
    \/ OrchRecord
    \/ OrchSave

SpecDisc == InitDisc /\ [][NextDisc]_vars

-----------------------------------------------------------------------------
(* Properties of discovery, checked under SpecDisc *)

(* the company the running or the last finished discovery call is for *)
DiscCompany ==
    IF d_pc = "idle" THEN companies_data[o_i - 1] ELSE companies_data[o_i]
DiscCalled == d_pc # "idle" \/ o_i > 1
DiscOver == d_pc \in {"returned", "idle"}

(* a search-result link that is a syntactically valid URL and passes the
   keyword test and the domain-likelihood test *)
PassesBoth(href, company_name) ==
    /\ Truthy(href)
    /\ UrlScheme(href) # <<>> /\ UrlNetloc(href) # <<>>
    /\ KeywordTest(Lower(href))
    /\ is_likely_company_domain(href, company_name)
NonePasses(links, company_name) ==
    \A j \in 1..Len(links) : ~PassesBoth(links[j], company_name)
IsFirstPassing(href, links, company_name) ==
    \E j \in 1..Len(links) :
        /\ links[j] = href
        /\ PassesBoth(links[j], company_name)
        /\ \A k \in 1..(j - 1) : ~PassesBoth(links[k], company_name)

(* the log of a call that issued the first n queries of the documented list *)
DocumentedQueries(company_name) ==
    << company_name \o <<" ", "career", "s">>,
       company_name \o <<" ", "job", "s">>,
       company_name \o <<" ", "job", " ", "opening", "s">>,
       company_name \o <<" ", "recruiting">>,
       company_name \o <<" ", "career", " ", "opportunities">> >>
LogOfQueries(company_name, n) ==
    [e \in 1..(2 * n) |->
        [op |-> IF e % 2 = 1 THEN "get" ELSE "sleep",
         query |-> DocumentedQueries(company_name)[(e + 1) \div 2]]]

KnownUrlValid(c) ==
    /\ Truthy(c.direct_career_url)
    /\ UrlScheme(c.direct_career_url) # <<>>
    /\ UrlNetloc(c.direct_career_url) # <<>>

(* C4: when the known URL is present and has a non-empty scheme and a non-empty
   authority, the call returns exactly that URL, and it has issued no search
   request and taken no politeness pause. *)
C4_KnownUrlShortCircuits ==
    (DiscCalled /\ DiscOver /\ KnownUrlValid(DiscCompany)) =>
        /\ d_found = DiscCompany.direct_career_url
        /\ net_log = <<>>
        /\ d_q = 0
C4_Witness ==
    /\ d_pc = "returned" /\ KnownUrlValid(DiscCompany)
    /\ d_found = KnownAcmeUrl

(* C5: first match.  While the search goes on, no link of the response just
   examined passes both tests (so none examined earlier did); when the call
   returns a URL found by search, it is the first link of the last response,
   in page order, that is a valid URL passing both tests, and the last request
   of the log is the one that produced it: no later query was issued. *)
C5_FirstMatch ==
    /\ (d_pc = "searching" /\ d_q > 0) =>
           NonePasses(d_resp.links, DiscCompany.name)
    /\ (DiscCalled /\ DiscOver /\ d_q > 0 /\ d_found # None) =>
           /\ d_resp.kind = "ok"
           /\ IsFirstPassing(d_found, d_resp.links, DiscCompany.name)
           /\ Len(net_log) = 2 * d_q
           /\ net_log[2 * d_q - 1] =
                  [op |-> "get", query |-> DocumentedQueries(DiscCompany.name)[d_q]]
    /\ (DiscCalled /\ DiscOver /\ d_q > 0 /\ d_found = None) =>
           NonePasses(d_resp.links, DiscCompany.name)
C5_Witness ==
    /\ d_pc = "returned" /\ d_q = 3
    /\ Len(d_resp.links) = 2
    /\ PassesBoth(d_resp.links[1], DiscCompany.name)
    /\ PassesBoth(d_resp.links[2], DiscCompany.name)
    /\ d_resp.links[1] # d_resp.links[2]
    /\ d_found = d_resp.links[1]

(* C6: when no link of any response passes both tests, the call issues exactly
   the five documented queries in their order and then returns no URL, and the
   orchestrator's entry for the company has status FAILED_DISCOVERY and a null
   career_page_url. *)
C6_ExhaustedSearchFails ==
    /\ d_pc = "searching" =>
           /\ d_q <= 5
           /\ net_log = LogOfQueries(DiscCompany.name, d_q)
    /\ (DiscCalled /\ DiscOver /\ d_q > 0
          /\ NonePasses(d_resp.links, DiscCompany.name)) =>
           /\ d_q = 5
           /\ net_log = LogOfQueries(DiscCompany.name, 5)
           /\ d_found = None
    /\ (d_pc = "idle" /\ o_i > 1 /\ d_q > 0
          /\ NonePasses(d_resp.links, DiscCompany.name)) =>
           discovered_pages[Len(discovered_pages)] =
               [company_name |-> DiscCompany.name, career_page_url |-> None,
                status |-> "FAILED_DISCOVERY"]
C6_Witness ==
    /\ d_pc = "idle" /\ o_i > 1 /\ d_q = 5 /\ d_found = None
    /\ d_resp.kind = "ok" /\ Len(d_resp.links) = 2
    /\ discovered_pages[1].status = "FAILED_DISCOVERY"

(* C7: a query whose request or parse raised ends the call only when it was the
   last of the list, and then with no URL; otherwise the search is still on and
   the next query follows.  Every request is logged with its pause whether it
   raised or not, and a passing link of a later response is returned although
   an earlier query raised. *)
C7_QueryErrorIsolated ==
    /\ (DiscCalled /\ d_q > 0 /\ d_resp.kind # "ok") =>
           /\ d_found = None
           /\ d_pc = "searching" \/ d_q = 5
    /\ (DiscCalled /\ d_pc = "searching" /\ d_q > 0 /\ d_q < 5) =>
           ENABLED (\E resp \in Responses : DiscQuery(resp))
    /\ DiscCalled => Len(net_log) = 2 * d_q /\ d_errors <= d_q
    /\ (DiscCalled /\ DiscOver /\ d_errors > 0 /\ d_resp.kind = "ok"
          /\ ~NonePasses(d_resp.links, DiscCompany.name)) =>
           IsFirstPassing(d_found, d_resp.links, DiscCompany.name)
C7_Witness ==
    /\ d_pc = "returned" /\ d_errors = 2 /\ d_q = 3
    /\ d_found = LinkFooOpen

-----------------------------------------------------------------------------
(* job_listing_scraper.py: configuration lists *)
job_keywords ==
    { <<"engineer">>, <<"developer">>, <<"manager">>, <<"analyst">>,
      <<"de", "sign", "er">>, <<"specialist">>, <<"director">>, <<"lead">>,
      <<"architect">>, <<"associate">>, <<"intern">>, <<"principal">>,
      <<"consultant">>, <<"recr", "ui", "ter">>, <<"sales">>, <<"marketing">>,
      <<"product">>, <<"data", " ", "scientist">>, <<"re", "search", "er">>,
      <<"software">>, <<"hardware">>, <<"ux">>, <<"ui">>, <<"operations">>,
      <<"finance">>, <<"hr">>, <<"support">>, <<"account">>, <<"expert">>,
      <<"senior">>, <<"junior">>, <<"staff">>, <<"staff", "ing">>,
      <<"technician">>, <<"business">>, <<"legal">>, <<"counsel">> }

excluded_keywords ==
    { <<"cookie">>, <<"privacy">>, <<"help">>, <<"career", "s">>, <<"about">>,
      <<"blog">>, <<"login">>, <<"sign">>, <<"policy">>, <<"terms">>, <<"faq">>,
      <<"job", "s", "job", "s">>, <<"person_outline">>, <<"work_outline">>,
      <<"search">>, <<"results">>, <<"dashboard">>, <<"preferences">>,
      <<"categories">>, <<"alerts">>, <<"eec">>, <<"eeo">>,
      <<"how", " ", "we", " ", "hire">>,
      <<"know", " ", "your", " ", "rights">>,
      <<"equal", " ", "opportunity">>, <<"contact">> }

companies_requiring_playwright ==
    { <<"Google">>, <<"Microsoft">>, <<"Netflix">>, <<"Airbnb">>, <<"IBM">>,
      <<"ServiceNow">>, <<"Adobe">>, <<"Apple">>, <<"Amazon">>, <<"Dropbox">>,
      <<"Webflow">>, <<"Canva">>, <<"GoodRx">>, <<"Walmart">> }

(* the path tokens of line 168, and of lines 260 and 422 *)
StaticPathTokens ==
    { <<"job">>, <<"career">>, <<"opening">>, <<"position">>, <<"view", "job">> }
PlaywrightPathTokens == StaticPathTokens \cup { <<"listing">> }

max_pages == 45

-----------------------------------------------------------------------------
(* Title cleanup, lines 146-150 and 403-407 *)

(* the alternatives of the re.sub pattern, lowercased (re.IGNORECASE) *)
BoilerplatePatterns ==
    << <<"work_outline", "job", "s">>, <<"person_outline">>,
       <<"job", "s", "job", "s">>, <<"help", "help", "open_in_new">>,
       <<"open_in_new">> >>
MatchLen(s) ==
    LET hits == { k \in 1..Len(BoilerplatePatterns) :
                    StartsWith(Lower(s), BoilerplatePatterns[k]) }
    IN IF hits = {} THEN 0
       ELSE Len(BoilerplatePatterns[CHOOSE k \in hits : \A m \in hits : k <= m])
RECURSIVE ReSubBoilerplate(_)
ReSubBoilerplate(s) ==
    IF s = <<>> THEN <<>>
    ELSE IF MatchLen(s) > 0
         THEN ReSubBoilerplate(SubSeq(s, MatchLen(s) + 1, Len(s)))
         ELSE <<Head(s)>> \o ReSubBoilerplate(Tail(s))

(* str.split() *)
RECURSIVE Split(_)
Split(s) ==
    LET t == LStrip(s, Whitespace) IN
    IF t = <<>> THEN <<>>
    ELSE LET e == FirstIn(t, Whitespace, 1) IN
         <<SubSeq(t, 1, e - 1)>> \o Split(SubSeq(t, e, Len(t)))
(* ' '.join(parts) *)
RECURSIVE JoinSpace(_)
JoinSpace(parts) ==
    IF parts = <<>> THEN <<>>
    ELSE IF Len(parts) = 1 THEN parts[1]
    ELSE parts[1] \o <<" ">> \o JoinSpace(Tail(parts))
(* str.replace('  ', ' '): one left-to-right pass over non-overlapping matches *)
RECURSIVE ReplaceDoubleSpace(_)
ReplaceDoubleSpace(s) ==
    IF s = <<>> THEN <<>>
    ELSE IF Len(s) >= 2 /\ s[1] = " " /\ s[2] = " "
         THEN <<" ">> \o ReplaceDoubleSpace(SubSeq(s, 3, Len(s)))
         ELSE <<Head(s)>> \o ReplaceDoubleSpace(Tail(s))

CleanTitle(raw) ==
    LET t1 == Strip(ReSubBoilerplate(raw), Whitespace)
        title_parts == Split(t1)
        t2 == IF Len(title_parts) >= 2 /\ Lower(title_parts[1]) = Lower(title_parts[2])
              THEN JoinSpace(Tail(title_parts)) ELSE t1
    IN ReplaceDoubleSpace(Strip(t2, {":", "-", " "}))

-----------------------------------------------------------------------------
(* urllib.parse.urljoin for the references the pages hold: absolute URLs,
   //host references, absolute paths and plain relative paths *)
UrlJoinRaises(base, href) == UrlParseRaises(href)

RECURSIVE LastSlash(_, _)
LastSlash(s, i) == IF i = 0 THEN 0 ELSE IF s[i] = "/" THEN i ELSE LastSlash(s, i - 1)
UrlJoin(base, href) ==
    LET origin == UrlScheme(base) \o <<":", "/", "/">> \o UrlNetloc(base)
        bpath == UrlPath(base)
    IN IF href = <<>> THEN base
       ELSE IF UrlScheme(href) # <<>> THEN href
       ELSE IF StartsWith(href, <<"/", "/">>) THEN UrlScheme(base) \o <<":">> \o href
       ELSE IF Head(href) = "/" THEN origin \o href
       ELSE IF bpath = <<>> THEN origin \o <<"/">> \o href
       ELSE origin \o SubSeq(bpath, 1, LastSlash(bpath, Len(bpath))) \o href

(* href.startswith('http') *)
StartsWithHttp(href) == href # <<>> /\ Head(href) \in {"http", "https"}

(* lines 152-153, 248-249, 330-331, 409-410 *)
ResolveLink(company_url, href) ==
    IF StartsWithHttp(href) THEN href ELSE UrlJoin(company_url, href)

-----------------------------------------------------------------------------
(* The filters of lines 156-169, 251-261, 333-335, 412-425 *)
job_id_of(title, link) == IF Truthy(link) THEN title \o <<"-">> \o link ELSE title

AnyKeywordIn(keywords, text) == \E k \in keywords : Contains(text, k)

(* len(href.strip('/').split('/')) *)
SegmentCount(href) ==
    LET t == Strip(href, {"/"}) IN
    1 + Cardinality({ i \in 1..Len(t) : t[i] = "/" })
ShortGenericLink(href, tokens) ==
    SegmentCount(href) < 4 /\ ~AnyKeywordIn(tokens, href)

(* variant: only the URLs of this call are looked at *)
IsDuplicateLocalOnly(job_id, link, ids, urls) ==
    Truthy(link) /\ link \in urls

(* variant: only the ids of the run are looked at *)
IsDuplicateIdOnly(job_id, link, ids, urls) == job_id \in ids

(* lines 157, 252, 334, 413 *)
IsDuplicate(job_id, link, ids, urls) ==
    job_id \in ids \/ (Truthy(link) /\ link \in urls)

(* the state one scrape call works on *)
Acc(ls, ids, urls) == [listings |-> ls, ids |-> ids, urls |-> urls, raised |-> FALSE]

(* variant: the id of an appended Listing is not added to the run-wide set *)
EmitWithoutId(acc, title, link) ==
    [acc EXCEPT !.listings = Append(@, [title |-> title, url |-> link]),
                !.urls = IF Truthy(link) THEN @ \cup {link} ELSE @]

(* variant: the new Listing is put at the front of the list *)
EmitAtFront(acc, title, link) ==
    [acc EXCEPT !.listings = <<[title |-> title, url |-> link]>> \o @,
                !.ids = @ \cup {job_id_of(title, link)},
                !.urls = IF Truthy(link) THEN @ \cup {link} ELSE @]

(* lines 171-173, 263-266, 352-355, 427-430: the Listing is appended and its
   id and link are remembered *)
Emit(acc, title, link) ==
    [acc EXCEPT !.listings = Append(@, [title |-> title, url |-> link]),
                !.ids = @ \cup {job_id_of(title, link)},
                !.urls = IF Truthy(link) THEN @ \cup {link} ELSE @]

(* lines 155-173: a candidate with its cleaned title and resolved href *)
StaticCandidate(acc, title, href) ==
    IF IsDuplicate(job_id_of(title, href), href, acc.ids, acc.urls) THEN acc
    ELSE IF ~AnyKeywordIn(job_keywords, Lower(title)) THEN acc
    ELSE IF AnyKeywordIn(excluded_keywords, Lower(title)) THEN acc
    ELSE IF ShortGenericLink(href, StaticPathTokens) THEN acc
    ELSE Emit(acc, title, href)

(* lines 139-173: the body of the loop for one element; raised is set when
   urljoin raises, which ends the loop (line 181) *)
StaticElement(element, acc, company_url) ==
    IF ~Truthy(element.text) \/ ~Truthy(element.href) THEN acc
    ELSE IF ~StartsWithHttp(element.href) /\ UrlJoinRaises(company_url, element.href)
    THEN [acc EXCEPT !.raised = TRUE]
    ELSE StaticCandidate(acc, CleanTitle(element.text),
                         ResolveLink(company_url, element.href))

(* lines 138-173: the loop of scrape_company_jobs over potential_job_elements *)
RECURSIVE ProcessStatic(_, _, _, _)
ProcessStatic(elements, i, acc, company_url) ==
    IF i > Len(elements) \/ acc.raised THEN acc
    ELSE ProcessStatic(elements, i + 1, StaticElement(elements[i], acc, company_url),
                       company_url)

(* variant: the first selector that raises ends the collection *)
RECURSIVE potential_job_elements_until_failure(_)
potential_job_elements_until_failure(doc) ==
    IF doc = <<>> \/ Head(doc).raises THEN <<>>
    ELSE Head(doc).elements \o potential_job_elements_until_failure(Tail(doc))

(* lines 126-133: the elements of the selectors that did not raise, in list order *)
RECURSIVE potential_job_elements(_)
potential_job_elements(doc) ==
    IF doc = <<>> THEN <<>>
    ELSE (IF Head(doc).raises THEN <<>> ELSE Head(doc).elements)
         \o potential_job_elements(Tail(doc))

-----------------------------------------------------------------------------
(* Lines 376-433: the generic Playwright extraction *)
MicrosoftTitleClass == "MZGzlrn8gfgSs8TZHhv2"
NetflixTitleClass == "position-title"

(* lines 380-400: the title and the link taken from one element *)
ExtractTitleLink(element, company_name) ==
    IF company_name = <<"Microsoft">> /\ MicrosoftTitleClass \in element.class
    THEN [title |-> element.text, link |-> None]
    ELSE IF company_name = <<"Netflix">> /\ NetflixTitleClass \in element.class
    THEN [title |-> element.text, link |-> None]
    ELSE IF element.name = "a"
    THEN [title |-> element.text, link |-> element.href]
    ELSE IF element.nested_href # None
    THEN [title |-> element.nested_text, link |-> element.nested_href]
    ELSE [title |-> element.text, link |-> None]

(* lines 412-430: a candidate with its cleaned title and resolved link *)
GenericCandidate(acc, title, link) ==
    IF IsDuplicate(job_id_of(title, link), link, acc.ids, acc.urls) THEN acc
    ELSE IF ~AnyKeywordIn(job_keywords, Lower(title)) THEN acc
    ELSE IF AnyKeywordIn(excluded_keywords, Lower(title)) THEN acc
    ELSE IF Truthy(link) /\ ShortGenericLink(link, PlaywrightPathTokens) THEN acc
    ELSE IF ~Truthy(link) /\ Len(Split(title)) < 3 THEN acc
    ELSE Emit(acc, title, link)

(* lines 400-430: the body of the loop for the title and link of one element *)
GenericElement(tl, acc, company_url) ==
    IF ~Truthy(tl.title) THEN acc
    ELSE IF Truthy(tl.link) /\ ~StartsWithHttp(tl.link) /\ UrlJoinRaises(company_url, tl.link)
    THEN [acc EXCEPT !.raised = TRUE]
    ELSE GenericCandidate(acc, CleanTitle(tl.title),
                          IF Truthy(tl.link) THEN ResolveLink(company_url, tl.link)
                          ELSE tl.link)

(* lines 379-430: the elements of one selector; raised is set when urljoin
   raises, which ends this selector only (line 431) *)
RECURSIVE ProcessGenericElements(_, _, _, _, _)
ProcessGenericElements(elements, i, acc, company_url, company_name) ==
    IF i > Len(elements) \/ acc.raised THEN acc
    ELSE ProcessGenericElements(elements, i + 1,
             GenericElement(ExtractTitleLink(elements[i], company_name), acc, company_url),
             company_url, company_name)

(* lines 376-433: the loop over css_selectors_playwright *)
RECURSIVE ProcessGeneric(_, _, _, _)
ProcessGeneric(doc, acc, company_url, company_name) ==
    IF doc = <<>> THEN acc
    ELSE LET after == IF Head(doc).raises THEN acc
                      ELSE ProcessGenericElements(Head(doc).elements, 1, acc,
                                                  company_url, company_name)
         IN ProcessGeneric(Tail(doc), [after EXCEPT !.raised = FALSE],
                           company_url, company_name)

(* lines 251-266: a candidate of a Google page; the title is taken as it is *)
GoogleCandidate(acc, title, link) ==
    IF IsDuplicate(job_id_of(title, link), link, acc.ids, acc.urls) THEN acc
    ELSE IF ~AnyKeywordIn(job_keywords, Lower(title)) THEN acc
    ELSE IF AnyKeywordIn(excluded_keywords, Lower(title)) THEN acc
    ELSE IF ShortGenericLink(link, PlaywrightPathTokens) THEN acc
    ELSE Emit(acc, title, link)

(* lines 239-266: the body of the loop for one job item *)
GoogleItem(item, acc, company_url) ==
    IF ~Truthy(item.title) \/ ~Truthy(item.link) THEN acc
    ELSE IF ~StartsWithHttp(item.link) /\ UrlJoinRaises(company_url, item.link)
    THEN [acc EXCEPT !.raised = TRUE]
    ELSE GoogleCandidate(acc, item.title, ResolveLink(company_url, item.link))

(* lines 238-266: the job items of one Google page *)
RECURSIVE ProcessGoogleItems(_, _, _, _)
ProcessGoogleItems(items, i, acc, company_url) ==
    IF i > Len(items) \/ acc.raised THEN acc
    ELSE ProcessGoogleItems(items, i + 1, GoogleItem(items[i], acc, company_url),
                            company_url)

(* lines 333-355: a candidate of the ServiceNow page; the keyword and link
   filters are commented out in the source *)
ServiceNowCandidate(acc, title, link) ==
    IF IsDuplicate(job_id_of(title, link), link, acc.ids, acc.urls) THEN acc
    ELSE Emit(acc, title, link)

(* lines 319-355: the body of the loop for one job item *)
ServiceNowItem(item, acc, company_url) ==
    IF ~Truthy(item.title) \/ ~Truthy(item.link) THEN acc
    ELSE IF ~StartsWithHttp(item.link) /\ UrlJoinRaises(company_url, item.link)
    THEN [acc EXCEPT !.raised = TRUE]
    ELSE ServiceNowCandidate(acc, item.title, ResolveLink(company_url, item.link))

(* lines 318-355: the job items of the ServiceNow page *)
RECURSIVE ProcessServiceNowItems(_, _, _, _)
ProcessServiceNowItems(items, i, acc, company_url) ==
    IF i > Len(items) \/ acc.raised THEN acc
    ELSE ProcessServiceNowItems(items, i + 1, ServiceNowItem(items[i], acc, company_url),
                                company_url)

-----------------------------------------------------------------------------
(* Results of the scrape calls *)
NoKey == <<"<absent>">>
StaticOk(company_url, ls) == [url |-> company_url, listings |-> ls, error |-> NoKey]
PlaywrightOk(company_url, ls) == [url |-> company_url, listings |-> ls, error |-> None]
(* variant: the failure is swallowed, the result carries no error *)
ScrapeErrorSilent(company_url, msg) == [url |-> company_url, listings |-> <<>>, error |-> None]
ScrapeError(company_url, msg) == [url |-> company_url, listings |-> <<>>, error |-> msg]

(* lines 176 and 181-183: what the call returns after the loop, with the
   global set as the loop left it *)
StaticReturn(company_url, acc) ==
    IF acc.raised
    THEN [result |-> ScrapeError(company_url, <<"ValueError">>), ids |-> acc.ids]
    ELSE [result |-> StaticOk(company_url, acc.listings), ids |-> acc.ids]

(* scrape_company_jobs, lines 86-183, for one response of the site *)
scrape_company_jobs(company_url, resp, ids) ==
    IF resp.kind # "ok"
    THEN [result |-> ScrapeError(company_url, <<resp.kind>>), ids |-> ids]
    ELSE StaticReturn(company_url,
                      ProcessStatic(potential_job_elements(resp.doc), 1,
                                    Acc(<<>>, ids, {}), company_url))

-----------------------------------------------------------------------------
(* Inputs of the scrape runs *)
GoogleUrl == <<"https", ":", "/", "/", "career", "s", ".", "google", ".com", "/",
               "job", "s", "/", "results", "/">>
NetflixUrl == <<"https", ":", "/", "/", "job", "s", ".", "netflix", ".com", "/">>
ServiceNowUrl == <<"https", ":", "/", "/", "career", "s", ".", "servicenow", ".com", "/">>
FooUrl == <<"http", ":", "/", "/", "foo", "job", "s", ".com", "/", "career", "s", "/", "open">>
BoardUrl == <<"https", ":", "/", "/", "boards.greenhouse.io", "/", "foo", "/",
              "job", "s", "/", "1">>

ScrapeRows ==
    { << <<"Google">>, GoogleUrl >>,
      << <<"ServiceNow">>, ServiceNowUrl >>,
      << <<"Netflix">>, NetflixUrl >>,
      << Foo, FooUrl >>,
      << <<"Bar">>, <<>> >> }          \* empty URL cell
ScrapeSheets == SeqsUpTo(ScrapeRows, MaxRows)

SeniorEngineer == <<"Senior", " ", "Engineer">>
PrivacyPolicy == <<"Privacy", " ", "Policy">>
SoftwareEngineer == <<"Software", " ", "Engineer">>
SeniorEngineerPath == <<"/", "career", "s", "/", "senior-engineer-42">>

Anchor(text, href) ==
    [name |-> "a", class |-> {}, text |-> text, href |-> href,
     nested_text |-> None, nested_href |-> None]
TitleOnly(cls, text) ==
    [name |-> "div", class |-> {cls}, text |-> text, href |-> None,
     nested_text |-> None, nested_href |-> None]

(* elements the selectors match in the runs over several companies *)
MainElements ==
    { Anchor(SeniorEngineer, SeniorEngineerPath),
      Anchor(SoftwareEngineer, SeniorEngineerPath),   \* same link, other title
      Anchor(SeniorEngineer, BoardUrl) }              \* absolute link
Selector(elements) == [raises |-> FALSE, elements |-> elements]
FailingSelector == [raises |-> TRUE, elements |-> <<>>]
MainDocs == { <<Selector(l)>> : l \in SeqsUpTo(MainElements, MaxElems) }
MainStaticResponses ==
    { [kind |-> "ok", doc |-> d] : d \in MainDocs }
        \cup { [kind |-> "RequestException", doc |-> <<>>] }

(* job items of a Google or ServiceNow page: the text of the title element and
   the href of the link element, None where the item lacks the element *)
Item(title, link) == [title |-> title, link |-> link]
MainPages ==
    { <<>>,
      <<Item(SeniorEngineer, BoardUrl)>>,
      <<Item(SoftwareEngineer, <<"job", "s", "/", "results", "/", "2">>),
        Item(None, BoardUrl)>>,
      <<Item(PrivacyPolicy, <<"/", "privacy">>)>> }        \* not a job title

LaunchOutcomes == {"ok", "launch_raises", "new_page_raises"}
NavigateOutcomes == {"ok", "wait_timeout", "goto_raises"}
NextOutcomes == {"clicked", "absent", "disabled", "click_raises", "load_raises"}
CloseOutcomes == {"ok", "raises"}

-----------------------------------------------------------------------------
(* job_listing_scraper.main *)
MainCompany == companies_data[m_i]
MainBetween == m_pc = "loop" /\ p_pc = "idle" /\ m_i <= Len(companies_data)

Entry(company, result) ==
    [company_name |-> company.name, career_page_url |-> company.direct_career_url,
     scraped_data |-> result]

playwrightLocals == <<p_company, browser, page_count, listings, current_processed_urls,
                      p_exit, p_result, p_wait>>

(* lines 486-500 *)
MainStart ==
    /\ m_pc = "start"
    /\ companies_data' = retrieve_companies_from_sheet(sheet)
    /\ m_pc' = IF companies_data' = <<>> THEN "exited" ELSE "loop"
    /\ global_found_listings_ids' = {}
    /\ UNCHANGED <<sheet, discVars, m_i, scraped_data, p_pc, playwrightLocals,
                   open_sessions, served>>

(* lines 505-512: the record has no usable URL.  The retriever stores an empty
   cell as None, and None.strip() at line 506 raises AttributeError, which
   nothing in main catches. *)
MainNoUrl ==
    /\ MainBetween
    /\ ~Truthy(MainCompany.direct_career_url)
    /\ IF MainCompany.direct_career_url = None
       THEN m_pc' = "crashed" /\ m_i' = m_i
       ELSE m_pc' = m_pc /\ m_i' = m_i + 1
    /\ UNCHANGED <<sheet, companies_data, discVars, scraped_data,
                   global_found_listings_ids, p_pc, playwrightLocals, open_sessions,
                   served>>

(* lines 519-525: the value the call returned is appended; the call has left
   its ids in global_found_listings_ids *)
MainAppendStatic(out) ==
    /\ scraped_data' = Append(scraped_data, Entry(MainCompany, out.result))
    /\ global_found_listings_ids' = out.ids

(* lines 505-526 for a company fetched with requests, with the call of
   scrape_company_jobs *)
MainStatic(resp) ==
    /\ MainBetween
    /\ Truthy(MainCompany.direct_career_url)
    /\ MainCompany.name \notin companies_requiring_playwright
    /\ MainAppendStatic(scrape_company_jobs(MainCompany.direct_career_url, resp,
                                            global_found_listings_ids))
    /\ m_i' = m_i + 1
    /\ UNCHANGED <<sheet, companies_data, discVars, m_pc, p_pc, playwrightLocals,
                   open_sessions, served>>

(* lines 516-517 and 192-194: main awaits scrape_company_jobs_with_playwright *)
MainPlaywright ==
    /\ MainBetween
    /\ Truthy(MainCompany.direct_career_url)
    /\ MainCompany.name \in companies_requiring_playwright
    /\ p_pc' = "launch"
    /\ p_company' = MainCompany
    /\ browser' = "none" /\ page_count' = 0 /\ listings' = <<>>
    /\ current_processed_urls' = {} /\ p_exit' = "none" /\ p_result' = None
    /\ p_wait' = "none"
    /\ UNCHANGED <<sheet, companies_data, discVars, m_pc, m_i, scraped_data,
                   global_found_listings_ids, open_sessions, served>>

(* lines 528-534 *)
MainSave ==
    /\ m_pc = "loop" /\ p_pc = "idle"
    /\ m_i > Len(companies_data)
    /\ m_pc' = "done"
    /\ UNCHANGED <<sheet, companies_data, discVars, m_i, scraped_data,
                   global_found_listings_ids, p_pc, playwrightLocals, open_sessions,
                   served>>

-----------------------------------------------------------------------------
(* scrape_company_jobs_with_playwright, lines 187-444 *)
mainVarsKept == <<sheet, companies_data, discVars, m_pc, m_i, scraped_data, served>>

(* lines 438-440: the except clause of the call *)
Failed(msg) ==
    /\ p_pc' = "returning"
    /\ p_exit' = "exception"
    /\ p_result' = ScrapeError(p_company.direct_career_url, <<msg>>)

(* lines 286-287, 357-358, 435-436: the return statement of a branch *)
Returned(reason, ls) ==
    /\ p_pc' = "returning"
    /\ p_exit' = reason
    /\ p_result' = PlaywrightOk(p_company.direct_career_url, ls)

(* lines 195-198 *)
PwLaunch(outcome) ==
    /\ p_pc = "launch"
    /\ IF outcome = "launch_raises"
       THEN /\ Failed("LaunchError")
            /\ UNCHANGED <<browser, open_sessions>>
       ELSE /\ browser' = "open"
            /\ open_sessions' = open_sessions + 1
            /\ IF outcome = "new_page_raises"
               THEN Failed("PageError")
               ELSE p_pc' = "navigate" /\ UNCHANGED <<p_exit, p_result>>
    /\ UNCHANGED <<mainVarsKept, p_wait, global_found_listings_ids, p_company, page_count,
                   listings, current_processed_urls>>

(* variant: the waits of lines 218-219 are outside the try, a timeout of
   theirs reaches the except clause of line 438 *)
GotoRaisesOrWaitTimesOut(outcome) == outcome # "ok"

(* variant: page.goto is inside the try of the waits, its failure is logged
   and the extraction goes on *)
GotoNeverFatal(outcome) == FALSE

(* lines 215, 298, 363: page.goto is outside the try of the waits, so its
   exceptions reach line 438; those of the waits are caught and logged *)
GotoRaises(outcome) == outcome = "goto_raises"

(* lines 205-222, 289-305, 360-371: the branch is chosen by the company name,
   the page is loaded and the wait for its content is tried *)
PwNavigate(outcome) ==
    /\ p_pc = "navigate"
    /\ IF GotoRaises(outcome)
       THEN Failed("NavigationError") /\ UNCHANGED p_wait
       ELSE /\ p_pc' = IF p_company.name = <<"Google">> THEN "google_loop"
                       ELSE IF p_company.name = <<"ServiceNow">> THEN "servicenow"
                       ELSE "generic"
            /\ p_wait' = IF outcome = "wait_timeout" THEN "timeout" ELSE "ok"
            /\ UNCHANGED <<p_exit, p_result>>
    /\ UNCHANGED <<mainVarsKept, global_found_listings_ids, p_company, browser,
                   page_count, listings, current_processed_urls, open_sessions>>

(* variant: the loop runs while page_count <= max_pages *)
LoopContinuesInclusive(pc) == pc <= max_pages

(* line 224 *)
LoopContinues(pc) == pc < max_pages

(* variant: no try around the next control, its errors leave the call *)
NextControlUnguarded(outcome) ==
    CASE outcome = "clicked" -> "continue"
      [] outcome = "disabled" -> "next_disabled"
      [] OTHER -> "exception"

(* lines 270-284: what the attempt on the next control does to the loop *)
NextControl(outcome) ==
    CASE outcome = "clicked" -> "continue"
      [] outcome = "absent" -> "next_absent"
      [] outcome = "disabled" -> "next_disabled"
      [] outcome = "click_raises" -> "next_error"
      [] outcome = "load_raises" -> "next_error"

(* the listings, URLs and ids an extraction leaves behind *)
Extracted(acc) ==
    /\ listings' = acc.listings
    /\ current_processed_urls' = acc.urls
    /\ global_found_listings_ids' = acc.ids

(* lines 307-358 and 373-436: the single page of the branch is extracted and
   the call returns, or an exception of the extraction reaches line 438 *)
PageDone(acc) ==
    /\ Extracted(acc)
    /\ IF acc.raised THEN Failed("ValueError") ELSE Returned("done", acc.listings)

(* lines 238-284: a Google page is extracted, then the next control is tried *)
GooglePageDone(acc, after) ==
    /\ Extracted(acc)
    /\ IF acc.raised THEN Failed("ValueError")
       ELSE IF after = "exception" THEN Failed("NextError")
       ELSE IF after = "continue" THEN UNCHANGED <<p_pc, p_exit, p_result>>
       ELSE Returned(after, acc.listings)

(* lines 224-284: one iteration of the Google pagination loop *)
PwGooglePage(content, outcome) ==
    /\ p_pc = "google_loop"
    /\ LoopContinues(page_count)
    /\ page_count' = page_count + 1
    /\ IF content.raises
       THEN /\ Failed("ContentError")
            /\ UNCHANGED <<listings, current_processed_urls, global_found_listings_ids>>
       ELSE IF content.items = <<>> /\ page_count' > 1
       THEN /\ Returned("no_items", listings)
            /\ UNCHANGED <<listings, current_processed_urls, global_found_listings_ids>>
       ELSE GooglePageDone(ProcessGoogleItems(content.items, 1,
                               Acc(listings, global_found_listings_ids,
                                   current_processed_urls),
                               p_company.direct_career_url),
                           NextControl(outcome))
    /\ UNCHANGED <<mainVarsKept, p_wait, p_company, browser, open_sessions>>

(* lines 224 and 286-287: the loop condition fails *)
PwGoogleCap ==
    /\ p_pc = "google_loop"
    /\ ~LoopContinues(page_count)
    /\ Returned("cap", listings)
    /\ UNCHANGED <<mainVarsKept, p_wait, global_found_listings_ids, p_company, browser,
                   page_count, listings, current_processed_urls, open_sessions>>

(* lines 307-358 *)
PwServiceNow(content) ==
    /\ p_pc = "servicenow"
    /\ IF content.raises
       THEN /\ Failed("ContentError")
            /\ UNCHANGED <<listings, current_processed_urls, global_found_listings_ids>>
       ELSE PageDone(ProcessServiceNowItems(content.items, 1,
                         Acc(listings, global_found_listings_ids,
                             current_processed_urls),
                         p_company.direct_career_url))
    /\ UNCHANGED <<mainVarsKept, p_wait, p_company, browser, page_count, open_sessions>>

(* lines 373-436 *)
PwGeneric(content) ==
    /\ p_pc = "generic"
    /\ IF content.raises
       THEN /\ Failed("ContentError")
            /\ UNCHANGED <<listings, current_processed_urls, global_found_listings_ids>>
       ELSE PageDone(ProcessGeneric(content.doc,
                         Acc(listings, global_found_listings_ids,
                             current_processed_urls),
                         p_company.direct_career_url, p_company.name))
    /\ UNCHANGED <<mainVarsKept, p_wait, p_company, browser, page_count, open_sessions>>

(* variant: the browser is closed on the success path only *)
BrowserAfterFinallySuccessOnly(b, close) ==
    IF b = "open" /\ p_exit # "exception"
    THEN (IF close = "ok" THEN "closed" ELSE "close_raised") ELSE b

(* lines 441-444: browser.close() is awaited if a browser was launched *)
BrowserAfterFinally(b, close) ==
    IF b = "open" THEN (IF close = "ok" THEN "closed" ELSE "close_raised") ELSE b

(* lines 441-444 and 517-526: the finally clause runs, then main appends the
   returned value; an exception of browser.close() leaves the call and main *)
PwFinish(close) ==
    /\ p_pc = "returning"
    /\ browser' = BrowserAfterFinally(browser, close)
    /\ open_sessions' = IF browser' = "closed" THEN open_sessions - 1 ELSE open_sessions
    /\ IF browser' = "close_raised"
       THEN /\ m_pc' = "crashed"
            /\ UNCHANGED <<m_i, scraped_data>>
       ELSE /\ scraped_data' = Append(scraped_data, Entry(p_company, p_result))
            /\ m_i' = m_i + 1
            /\ UNCHANGED m_pc
    /\ p_pc' = "idle"
    /\ page_count' = 0 /\ listings' = <<>> /\ current_processed_urls' = {}
    /\ p_exit' = "none" /\ p_result' = None /\ p_wait' = "none"
    /\ UNCHANGED <<sheet, companies_data, discVars, global_found_listings_ids,
                   p_company, served>>

-----------------------------------------------------------------------------
(* The run of main over a sheet of companies *)
PageContents(pages) ==
    { [raises |-> FALSE, items |-> it] : it \in pages }
        \cup { [raises |-> TRUE, items |-> <<>>] }
GenericContents(docs) ==
    { [raises |-> FALSE, doc |-> d] : d \in docs }
        \cup { [raises |-> TRUE, doc |-> <<>>] }

InitMain ==
    /\ sheet \in ScrapeSheets
    /\ companies_data = <<>>
    /\ DiscIdle
    /\ m_pc = "start" /\ m_i = 1 /\ scraped_data = <<>>
    /\ global_found_listings_ids = {}
    /\ p_pc = "idle" /\ p_company = None /\ browser = "none" /\ page_count = 0
    /\ listings = <<>> /\ current_processed_urls = {} /\ p_exit = "none"
    /\ p_result = None /\ p_wait = "none" /\ open_sessions = 0 /\ served = None

NextMain ==
    \/ MainStart
    \/ MainNoUrl
    \/ \E resp \in MainStaticResponses : MainStatic(resp)
    \/ MainPlaywright
    \/ \E outcome \in LaunchOutcomes : PwLaunch(outcome)
    \/ \E outcome \in NavigateOutcomes : PwNavigate(outcome)
    \/ \E content \in PageContents(MainPages), outcome \in NextOutcomes :
           PwGooglePage(content, outcome)
    \/ PwGoogleCap
    \/ \E content \in PageContents(MainPages) : PwServiceNow(content)
    \/ \E content \in GenericContents(MainDocs) : PwGeneric(content)
    \/ \E close \in CloseOutcomes : PwFinish(close)
    \/ MainSave

SpecMain == InitMain /\ [][NextMain]_vars

-----------------------------------------------------------------------------
(* The same static page scraped twice in one run: two rows of the sheet name
   the same company and URL, and the site serves the same document to both
   calls, so the second call works on the candidates of the first against the
   same global_found_listings_ids *)
TwiceElements ==
    MainElements \cup
    { Anchor(PrivacyPolicy, <<"/", "privacy">>),
      Anchor(<<"Analyst">>, <<"/", "job", "s", "/", "7">>) }
TwiceResponses ==
    { [kind |-> "ok", doc |-> <<Selector(l)>>] : l \in SeqsUpTo(TwiceElements, MaxElems) }
        \cup { [kind |-> "RequestException", doc |-> <<>>] }

InitTwice ==
    /\ sheet = << <<Foo, FooUrl>>, <<Foo, FooUrl>> >>
    /\ served \in TwiceResponses
    /\ companies_data = <<>>
    /\ DiscIdle
    /\ m_pc = "start" /\ m_i = 1 /\ scraped_data = <<>>
    /\ global_found_listings_ids = {}
    /\ p_pc = "idle" /\ p_company = None /\ browser = "none" /\ page_count = 0
    /\ listings = <<>> /\ current_processed_urls = {} /\ p_exit = "none"
    /\ p_result = None /\ p_wait = "none" /\ open_sessions = 0

MainStaticServed == MainStatic(served)

NextTwice ==
    \/ MainStart
    \/ MainStaticServed
    \/ MainSave

SpecTwice == InitTwice /\ [][NextTwice]_vars

-----------------------------------------------------------------------------
(* Properties of the scrape run *)
RECURSIVE EmittedUpTo(_)
EmittedUpTo(n) ==
    IF n = 0 THEN <<>> ELSE EmittedUpTo(n - 1) \o scraped_data[n].scraped_data.listings

(* every Listing emitted so far in the run: those of the finished calls and
   those the call in progress has appended *)
AllEmitted == EmittedUpTo(Len(scraped_data)) \o listings

ByPlaywright(entry) == entry.company_name \in companies_requiring_playwright

(* C1: within one run of main, over any companies, static and dynamic calls
   and pages, no two emitted Listings have the same (title, url) *)
C1_NoDuplicateListings ==
    \A i, j \in 1..Len(AllEmitted) :
        (AllEmitted[i].title = AllEmitted[j].title /\ AllEmitted[i].url = AllEmitted[j].url)
            => i = j

(* a static and a dynamic call have both emitted, three Listings in all, each
   under its own id in global_found_listings_ids *)
C1_Witness ==
    /\ Len(scraped_data) = 2
    /\ ByPlaywright(scraped_data[1]) # ByPlaywright(scraped_data[2])
    /\ scraped_data[1].scraped_data.listings # <<>>
    /\ scraped_data[2].scraped_data.listings # <<>>
    /\ Len(AllEmitted) = 3
    /\ Cardinality(global_found_listings_ids) = 3

(* C2: a failure of one company never aborts the batch: no company stops the
   loop of main, and once main is over every company of the roster has been
   gone through *)
C2_BatchNeverAborted ==
    /\ m_pc # "crashed"
    /\ m_pc = "done" => m_i = Len(companies_data) + 1

(* C3: when the same candidates are processed twice against the same
   global_found_listings_ids, the second pass emits no Listing *)
C3_SecondPassEmitsNothing ==
    Len(scraped_data) = 2 => scraped_data[2].scraped_data.listings = <<>>

GooglePageStep ==
    \E content \in PageContents(MainPages), outcome \in NextOutcomes :
        PwGooglePage(content, outcome)

(* C8: while the next control keeps working the loop extracts page after page
   up to max_pages and no further; it then stops and returns the Listings
   accumulated, without error *)
C8_PaginationCap ==
    /\ page_count <= max_pages
    /\ p_pc = "google_loop" =>
           /\ page_count < max_pages => ENABLED GooglePageStep
           /\ page_count = max_pages => (~ENABLED GooglePageStep /\ ENABLED PwGoogleCap)
    /\ p_exit = "cap" =>
           /\ p_pc = "returning"
           /\ page_count = max_pages
           /\ p_result = PlaywrightOk(p_company.direct_career_url, listings)

C8_Witness ==
    /\ p_exit = "cap"
    /\ page_count = max_pages
    /\ Len(p_result.listings) = 2

NextFailures == {"absent", "disabled", "click_raises", "load_raises"}
NextFailureExits == {"next_absent", "next_disabled", "next_error"}

(* a page has been extracted and the attempt on the next control fails *)
C9_Step ==
    \A content \in PageContents(MainPages), outcome \in NextFailures :
        ( /\ PwGooglePage(content, outcome)
          /\ ~content.raises
          /\ ~(content.items = <<>> /\ page_count' > 1) )
        => /\ p_pc' = "returning"
           /\ p_exit' \in NextFailureExits
           /\ p_result' = PlaywrightOk(p_company.direct_career_url, listings')
           /\ Len(listings') >= Len(listings)
           /\ SubSeq(listings', 1, Len(listings)) = listings

(* C9: when, after a page is extracted, the next control is absent, disabled
   or raises on activation or on the wait after it, the loop ends, the call
   returns the Listings of all pages so far with no error, and no further page
   is extracted *)
C9_NextFailureEndsCleanly ==
    /\ [](p_pc = "returning" => ~ENABLED GooglePageStep)
    /\ [][C9_Step]_vars

C9_Witness ==
    /\ p_exit = "next_error"
    /\ page_count = 2
    /\ Len(listings) = 2
    /\ p_result = PlaywrightOk(p_company.direct_career_url, listings)

(* C10: a call that launched a browser has had browser.close() run when it is
   over, on the success path and on the error paths alike, and no session is
   open when main goes on to the next company *)
C10_SessionReleased ==
    /\ p_pc = "idle" => browser # "open"
    /\ p_pc \in {"navigate", "google_loop", "servicenow", "generic"} => browser = "open"
    /\ (m_pc = "loop" /\ p_pc = "idle") => open_sessions = 0
    /\ open_sessions <= 1

(* a call whose navigation or extraction failed is over, its browser closed,
   and main is at the next company *)
C10_Witness ==
    /\ m_pc = "loop" /\ p_pc = "idle"
    /\ Len(scraped_data) = 1
    /\ ByPlaywright(scraped_data[1])
    /\ scraped_data[1].scraped_data.error \in {<<"NavigationError">>, <<"ContentError">>}
    /\ browser = "closed"
    /\ open_sessions = 0
    /\ m_i <= Len(companies_data)

(* C11: when browser.close() raises in the finally clause, the call still
   hands its result to main, which appends it and goes on with the batch *)
C11_CloseFailureNotPropagated ==
    browser = "close_raised" =>
        /\ m_pc # "crashed"
        /\ Len(scraped_data) = m_i - 1
        /\ scraped_data # <<>>
        /\ ByPlaywright(scraped_data[Len(scraped_data)])

(* a result that records a failure: no listings and an error string *)
FailedResult(r) == r.listings = <<>> /\ r.error \notin {None, NoKey, <<>>}

PlaywrightBody == {"launch", "navigate", "google_loop", "servicenow", "generic"}

C12_Step ==
    /\ \A resp \in MainStaticResponses :
           (resp.kind # "ok" /\ MainStatic(resp))
           => /\ m_i' = m_i + 1
              /\ Len(scraped_data') = Len(scraped_data) + 1
              /\ scraped_data'[Len(scraped_data')].company_name = MainCompany.name
              /\ FailedResult(scraped_data'[Len(scraped_data')].scraped_data)
    /\ (p_pc \in PlaywrightBody /\ p_exit' = "exception")
           => /\ p_pc' = "returning"
              /\ FailedResult(p_result')
    /\ (p_pc = "returning" /\ p_exit = "exception" /\ m_pc' # "crashed")
           => /\ m_i' = m_i + 1
              /\ scraped_data' = Append(scraped_data, Entry(p_company, p_result))

(* C12: a failed fetch is not tried again: the failing step of a static or a
   dynamic call ends the call, main goes on to the next company, and the entry
   of the company holds no listings and an error string *)
C12_FailedFetchNotRetried ==
    /\ [](p_exit = "exception" => (p_pc = "returning" /\ FailedResult(p_result)))
    /\ [][C12_Step]_vars

(* a static fetch and a dynamic navigation have both failed, one entry each *)
C12_Witness ==
    /\ Len(scraped_data) = 2
    /\ m_i = 3
    /\ scraped_data[1].scraped_data.error = <<"RequestException">>
    /\ scraped_data[2].scraped_data.error = <<"NavigationError">>
    /\ FailedResult(scraped_data[1].scraped_data)
    /\ FailedResult(scraped_data[2].scraped_data)

ExtractionPositions == {"google_loop", "servicenow", "generic"}

(* the page content is read next: one of the extraction steps can be taken *)
ExtractionEnabled ==
    \/ ENABLED GooglePageStep
    \/ ENABLED (\E content \in PageContents(MainPages) : PwServiceNow(content))
    \/ ENABLED (\E content \in GenericContents(MainDocs) : PwGeneric(content))

C13_Step ==
    PwNavigate("wait_timeout")
    => /\ p_pc' = (IF p_company.name = <<"Google">> THEN "google_loop"
                   ELSE IF p_company.name = <<"ServiceNow">> THEN "servicenow"
                   ELSE "generic")
       /\ p_exit' = "none"
       /\ p_wait' = "timeout"

(* C13: a timeout of the wait after page.goto does not end the call: on the
   Google, the ServiceNow and the generic path the page content is read and
   extracted next, and the result of the extraction carries no error *)
C13_WaitTimeoutNotFatal ==
    /\ []((p_wait = "timeout" /\ p_pc \in ExtractionPositions /\ page_count < max_pages)
              => ExtractionEnabled)
    /\ []((p_wait = "timeout" /\ p_exit \notin {"none", "exception"})
              => p_result = PlaywrightOk(p_company.direct_career_url, listings))
    /\ []((p_wait = "timeout" /\ p_exit = "exception")
              => p_result.error \in {<<"ContentError">>, <<"ValueError">>})
    /\ [][C13_Step]_vars

(* the wait timed out on the generic path and the call returns the listings
   it extracted all the same *)
C13_Witness ==
    /\ p_wait = "timeout"
    /\ p_company.name = <<"Netflix">>
    /\ p_pc = "returning" /\ p_exit = "done"
    /\ listings # <<>>
    /\ p_result = PlaywrightOk(p_company.direct_career_url, listings)

NavigationFailed == p_exit = "exception" /\ p_result.error = <<"NavigationError">>

C14_Step ==
    PwNavigate("goto_raises")
    => /\ p_pc' = "returning"
       /\ p_result' = ScrapeError(p_company.direct_career_url, <<"NavigationError">>)
       /\ global_found_listings_ids' = global_found_listings_ids
       /\ listings' = <<>>

(* C14: when page.goto fails the call is over for the company: no page is
   read, nothing is appended and no id enters global_found_listings_ids, and
   the value returned has no listings and an error string *)
C14_NavigationFailureFatal ==
    /\ [](NavigationFailed =>
              /\ p_pc = "returning"
              /\ page_count = 0 /\ listings = <<>> /\ current_processed_urls = {}
              /\ p_wait = "none"
              /\ FailedResult(p_result)
              /\ ~ExtractionEnabled)
    /\ [][C14_Step]_vars

(* the navigation of the second company failed after the first company had
   left ids in the global set *)
C14_Witness ==
    /\ NavigationFailed
    /\ browser = "open"
    /\ m_i = 2
    /\ global_found_listings_ids # {}

-----------------------------------------------------------------------------
(* Discovery and extraction over the same sheet: run_orchestration and main
   each read the sheet with retrieve_companies_from_sheet; the site of Foo
   serves one anchor to every fetch *)
E2ERows == { <<Foo, <<>>>>, <<Foo, FooUrl>> }
E2EDocument ==
    [kind |-> "ok", doc |-> <<Selector(<<Anchor(SeniorEngineer, SeniorEngineerPath)>>)>>]
E2EListing ==
    [title |-> SeniorEngineer,
     url |-> <<"http", ":", "/", "/", "foo", "job", "s", ".com", "/", "career", "s", "/",
               "senior-engineer-42">>]

InitE2E ==
    /\ sheet \in { <<r>> : r \in E2ERows }
    /\ companies_data = <<>>
    /\ o_pc = "start" /\ o_i = 1 /\ discovered_pages = <<>>
    /\ d_pc = "idle" /\ d_q = 0 /\ d_resp = NoResponse /\ d_found = None
    /\ d_errors = 0 /\ net_log = <<>>
    /\ m_pc = "start" /\ m_i = 1 /\ scraped_data = <<>>
    /\ global_found_listings_ids = {}
    /\ p_pc = "idle" /\ p_company = None /\ browser = "none" /\ page_count = 0
    /\ listings = <<>> /\ current_processed_urls = {} /\ p_exit = "none"
    /\ p_result = None /\ p_wait = "none" /\ open_sessions = 0 /\ served = None

MainStaticE2E == MainStatic(E2EDocument)

NextE2E ==
    \/ OrchStart
    \/ OrchCall
    \/ \E resp \in Responses : DiscQuery(resp)
    \/ DiscExhausted
    \/ OrchRecord
    \/ OrchSave
    \/ MainStart
    \/ MainNoUrl
    \/ MainStaticE2E
    \/ MainSave

SpecE2E == InitE2E /\ [][NextE2E]_vars

MainOver == m_pc \in {"done", "crashed", "exited"}

(* C15: for Foo with no URL in the sheet, once discovery has recorded
   http://foojobs.com/careers/open and main is over, main has fetched that URL
   and its output holds the listing Senior Engineer at
   http://foojobs.com/careers/senior-engineer-42 *)
C15_EndToEnd ==
    ( /\ sheet = << <<Foo, <<>>>> >>
      /\ o_pc = "done"
      /\ discovered_pages = <<[company_name |-> Foo, career_page_url |-> LinkFooOpen,
                               status |-> "SUCCESS"]>>
      /\ MainOver )
    => /\ Len(scraped_data) = 1
       /\ scraped_data[1].career_page_url = LinkFooOpen
       /\ scraped_data[1].scraped_data.listings = <<E2EListing>>

(* C16: a row with an empty URL cell is a company of unknown URL for every
   consumer: the retriever hands the URL on as None, discovery goes through
   the search queries, and main skips the company without raising *)
C16_EmptyUrlIsUnknown ==
    sheet[1][2] = <<>> =>
        /\ companies_data # <<>> => companies_data[1].direct_career_url = None
        /\ d_pc = "returned" => d_q >= 1
        /\ m_pc # "crashed"
        /\ m_pc = "done" => (m_i = 2 /\ scraped_data = <<>>)

PassesKeywordTests(title) ==
    /\ AnyKeywordIn(job_keywords, Lower(title))
    /\ ~AnyKeywordIn(excluded_keywords, Lower(title))

(* C17: every Listing emitted, by the static, the generic, the Google or the
   ServiceNow path, has a title whose lowercase form holds a word of
   job_keywords and none of excluded_keywords *)
C17_EmittedPassKeywordTests ==
    \A i \in 1..Len(AllEmitted) : PassesKeywordTests(AllEmitted[i].title)

-----------------------------------------------------------------------------
(* One static call over a page of a site whose URL holds none of the path
   tokens: the title cleanup and the filters applied to single candidates *)
AcmeSiteUrl == <<"http", ":", "/", "/", "acme", ".com", "/", "work">>
SeniorAnalyst == <<"Senior", " ", "Analyst">>
ShortPath == <<"/", "x", "/", "y">>
AnalystPath == <<"/", "career", "s", "/", "job", "s", "/", "123", "/", "senior-analyst">>
BareHost == <<"http", ":", "/", "/", "acme", ".com">>
DoubledTitle == <<"Engineer", "Engineer", " ", "Software", " ", "Engineer">>
DashedTitle == <<"-", " ", "Senior", " ", "Analyst", " ", "-">>
RepeatedTitle == <<"Senior", " ", "senior", " ", "Analyst">>
WideTitle == <<"Senior", " ", " ", " ", "Engineer">>
Designer == <<"De", "sign", "er">>
Researcher == <<"Re", "search", "er">>
FilterElements ==
    { Anchor(SeniorEngineer, ShortPath),
      Anchor(SeniorAnalyst, AnalystPath),
      Anchor(SeniorEngineer, BareHost),
      Anchor(DoubledTitle, <<"/", "job", "s", "/", "1">>),
      Anchor(DashedTitle, <<"/", "job", "s", "/", "2">>),
      Anchor(RepeatedTitle, <<"/", "job", "s", "/", "3">>),
      Anchor(WideTitle, <<"/", "job", "s", "/", "4">>),
      Anchor(Designer, <<"/", "job", "s", "/", "5">>),
      Anchor(Researcher, <<"/", "job", "s", "/", "6">>) }
FilterResponses ==
    { [kind |-> "ok", doc |-> <<Selector(l)>>] : l \in SeqsUpTo(FilterElements, MaxElems) }
        \cup { [kind |-> "RequestException", doc |-> <<>>] }

InitFilter ==
    /\ sheet = << <<Acme, AcmeSiteUrl>> >>
    /\ served \in FilterResponses
    /\ companies_data = <<>>
    /\ DiscIdle
    /\ m_pc = "start" /\ m_i = 1 /\ scraped_data = <<>>
    /\ global_found_listings_ids = {}
    /\ p_pc = "idle" /\ p_company = None /\ browser = "none" /\ page_count = 0
    /\ listings = <<>> /\ current_processed_urls = {} /\ p_exit = "none"
    /\ p_result = None /\ p_wait = "none" /\ open_sessions = 0

NextFilter ==
    \/ MainStart
    \/ MainStaticServed
    \/ MainSave

SpecFilter == InitFilter /\ [][NextFilter]_vars

(* the call on the served page is over and these are its listings *)
ServedElements == IF served.kind = "ok" THEN served.doc[1].elements ELSE <<>>
FilterOutput == scraped_data[1].scraped_data.listings
FilterDone == Len(scraped_data) = 1

(* the path of the link is short and names no job token *)
ShortGenericPath(url) ==
    /\ SegmentCount(UrlPath(url)) < 4
    /\ ~AnyKeywordIn({ <<"job">>, <<"career">>, <<"opening">>, <<"position">> }, UrlPath(url))

(* C18: no Listing is emitted whose link path has fewer than 4 segments and
   none of the tokens job, career, opening, position (such as /x/y resolved
   against the source URL), and the candidate Senior Analyst at
   /careers/jobs/123/senior-analyst is emitted *)
C18_StructuralPlausibility ==
    FilterDone =>
        /\ \A i \in 1..Len(FilterOutput) : ~ShortGenericPath(FilterOutput[i].url)
        /\ ServedElements = <<Anchor(SeniorAnalyst, AnalystPath)>>
               => FilterOutput = <<[title |-> SeniorAnalyst,
                                    url |-> BareHost \o AnalystPath]>>

(* the page served one candidate of this raw title and the call emitted it
   under this title *)
CleanedTo(raw, title) ==
    (Len(ServedElements) = 1 /\ ServedElements[1].text = raw)
        => (Len(FilterOutput) = 1 /\ FilterOutput[1].title = title)

(* C19: the cleanup turns "EngineerEngineer Software Engineer" into
   "Software Engineer" and "- Senior Analyst -" into "Senior Analyst"; a first
   token equal to the second ignoring case is dropped, and ':', '-' and spaces
   are trimmed at both ends *)
C19_TitleCleanup ==
    FilterDone =>
        /\ CleanedTo(DoubledTitle, SoftwareEngineer)
        /\ CleanedTo(DashedTitle, SeniorAnalyst)
        /\ CleanedTo(RepeatedTitle, <<"senior", " ", "Analyst">>)

-----------------------------------------------------------------------------
(* the path and the query string of a URL: what follows the host, up to the
   fragment *)
PathAndQuery(s) ==
    IF StartsWith(UrlRest(s), <<"/", "/">>)
    THEN SubSeq(UrlRest(s), FirstIn(UrlRest(s), Delims, 3),
                FirstIn(UrlRest(s), {"#"}, 3) - 1)
    ELSE SubSeq(UrlRest(s), 1, FirstIn(UrlRest(s), {"#"}, 1) - 1)

(* C20: a URL that the search of find_career_page_url returns holds one of
   careers, jobs, employment, hiring in its path or query string; a link with
   such a token in its host name only, like http://foojobs.com/about, is never
   returned *)
C20_KeywordInPathOrQuery ==
    (d_pc = "returned" /\ d_q >= 1 /\ Truthy(d_found))
        => /\ KeywordTest(Lower(PathAndQuery(d_found)))
           /\ d_found # LinkFooAbout

-----------------------------------------------------------------------------
(* the slug of the two company names of the sheets: the name in lower case
   with its spaces removed *)
DocumentedSlug(company_name) ==
    IF company_name = Acme THEN <<"acme">> ELSE <<"foo">>
DocumentedDomainTest(href, slug) ==
    \/ Contains(get_base_domain(href), slug \o <<".com">>)
    \/ Contains(get_base_domain(href), slug \o <<".org">>)
    \/ Contains(get_base_domain(href), slug \o <<".net">>)
    \/ Contains(get_base_domain(href), slug)
    \/ Contains(Lower(href), slug)
AcmeAndUnrelated ==
    { <<LinkAcmeList, LinkUnrelated>>, <<LinkUnrelated, LinkAcmeList>> }

(* C21: a link passes the domain-likelihood test iff its base domain contains
   slug.com, slug.org or slug.net, or the slug is a substring of the base
   domain or of the lowercased URL; when a response for "Acme" holds
   https://acme.com/careers/list and https://unrelated.com/careers, in either
   order, the call returns the acme.com link, and it never returns the
   unrelated one *)
C21_DomainLikelihood ==
    /\ (DiscCalled /\ d_q > 0 /\ d_resp.kind = "ok") =>
           \A j \in 1..Len(d_resp.links) :
               is_likely_company_domain(d_resp.links[j], DiscCompany.name)
                   <=> DocumentedDomainTest(d_resp.links[j],
                                            DocumentedSlug(DiscCompany.name))
    /\ (d_pc = "returned" /\ d_q > 0 /\ DiscCompany.name = Acme
            /\ d_resp.links \in AcmeAndUnrelated) => d_found = LinkAcmeList
    /\ (d_pc = "returned" /\ DiscCompany.name = Acme) => d_found # LinkUnrelated
C21_Witness ==
    /\ d_pc = "returned" /\ d_q > 0 /\ DiscCompany.name = Acme
    /\ d_resp.links = <<LinkUnrelated, LinkAcmeList>>
    /\ d_found = LinkAcmeList

-----------------------------------------------------------------------------
(* C22: between any two consecutive search requests of one call there is a
   pause, whether the earlier query found no match, got no links or raised *)
C22_PauseBetweenRequests ==
    \A i, j \in 1..Len(net_log) :
        (i < j /\ net_log[i].op = "get" /\ net_log[j].op = "get") =>
            \E k \in (i + 1)..(j - 1) :
                net_log[k] = [op |-> "sleep", query |-> net_log[i].query]
C22_Witness ==
    /\ d_q = 3 /\ d_errors = 1
    /\ d_resp.kind = "ok" /\ d_resp.links = <<>>
    /\ net_log[5].op = "get"

-----------------------------------------------------------------------------
(* the ids of a sequence of Listings *)
KeysOf(ls) == { job_id_of(ls[k].title, ls[k].url) : k \in 1..Len(ls) }
UnitKeys(n) == KeysOf(scraped_data[n].scraped_data.listings)
KeysOfUnitsDisjoint ==
    /\ \A a, b \in 1..Len(scraped_data) :
           a # b => UnitKeys(a) \cap UnitKeys(b) = {}
    /\ \A a \in 1..Len(scraped_data) : UnitKeys(a) \cap KeysOf(listings) = {}
C23_Step ==
    (global_found_listings_ids' # global_found_listings_ids /\ m_pc # "start") =>
        /\ m_pc = "loop" /\ m_i <= Len(companies_data)
        /\ Len(scraped_data) < m_i
        /\ global_found_listings_ids \subseteq global_found_listings_ids'
        /\ p_pc # "idle" =>
               /\ p_company = MainCompany /\ p_company' = p_company
               /\ m_i' = m_i /\ scraped_data' = scraped_data
               /\ global_found_listings_ids' \ global_found_listings_ids
                      \subseteq KeysOf(listings')

(* C23: the run loop of main runs one company's extraction at a time: a step
   that inserts into global_found_listings_ids belongs to the one unit in
   progress, whose membership tests and insertions no other unit's step
   separates, and no id is emitted by two units *)
C23_DedupIndexSynchronized ==
    /\ []KeysOfUnitsDisjoint
    /\ [][C23_Step]_vars
C23_Witness ==
    /\ Len(scraped_data) = 1 /\ UnitKeys(1) # {}
    /\ p_pc = "google_loop" /\ page_count = 1 /\ listings # <<>>

-----------------------------------------------------------------------------
(* One company whose page is read through several selectors, some of which
   raise: Foo is fetched with requests, Netflix through the generic Playwright
   branch *)
MaxSelectors == 3
SoftwareEngineerLink == Anchor(SoftwareEngineer, <<"/", "job", "s", "/", "2">>)
SeniorEngineerLink == Anchor(SeniorEngineer, SeniorEngineerPath)
SelectorOutcomes ==
    { FailingSelector,
      Selector(<<SeniorEngineerLink>>),
      Selector(<<SoftwareEngineerLink>>),
      Selector(<<Anchor(PrivacyPolicy, <<"/", "privacy">>), SeniorEngineerLink>>) }
SelectorDocs == SeqsUpTo(SelectorOutcomes, MaxSelectors)

InitSelectors ==
    /\ sheet \in { << <<Foo, FooUrl>> >>, << << <<"Netflix">>, NetflixUrl >> >> }
    /\ served \in { [kind |-> "ok", doc |-> d] : d \in SelectorDocs }
    /\ companies_data = <<>>
    /\ DiscIdle
    /\ m_pc = "start" /\ m_i = 1 /\ scraped_data = <<>>
    /\ global_found_listings_ids = {}
    /\ p_pc = "idle" /\ p_company = None /\ browser = "none" /\ page_count = 0
    /\ listings = <<>> /\ current_processed_urls = {} /\ p_exit = "none"
    /\ p_result = None /\ p_wait = "none" /\ open_sessions = 0

PwGenericServed == PwGeneric([raises |-> FALSE, doc |-> served.doc])

NextSelectors ==
    \/ MainStart
    \/ MainStaticServed
    \/ MainPlaywright
    \/ \E outcome \in LaunchOutcomes : PwLaunch(outcome)
    \/ \E outcome \in NavigateOutcomes : PwNavigate(outcome)
    \/ PwGenericServed
    \/ \E close \in CloseOutcomes : PwFinish(close)
    \/ MainSave

SpecSelectors == InitSelectors /\ [][NextSelectors]_vars

(* the selectors of the served page that did not raise *)
WorkingSelectors == SelectSeq(served.doc, LAMBDA sel : ~sel.raises)
SomeSelectorRaises == \E k \in 1..Len(served.doc) : served.doc[k].raises
FooListings ==
    ProcessStatic(potential_job_elements(WorkingSelectors), 1, Acc(<<>>, {}, {}),
                  FooUrl).listings
NetflixListings ==
    ProcessGeneric(WorkingSelectors, Acc(<<>>, {}, {}), NetflixUrl, <<"Netflix">>).listings
HasListing(ls, title, url) == \E k \in 1..Len(ls) : ls[k] = [title |-> title, url |-> url]
SelectsSeniorEngineer ==
    \E k \in 1..Len(served.doc) :
        ~served.doc[k].raises /\ served.doc[k].elements = <<SeniorEngineerLink>>
C24_Step ==
    /\ MainStaticServed =>
           /\ scraped_data'[1].scraped_data = StaticOk(FooUrl, FooListings)
           /\ SelectsSeniorEngineer =>
                  HasListing(scraped_data'[1].scraped_data.listings, SeniorEngineer,
                             UrlJoin(FooUrl, SeniorEngineerPath))
    /\ PwGenericServed =>
           /\ p_exit' = "done"
           /\ p_result' = PlaywrightOk(NetflixUrl, NetflixListings)
           /\ SelectsSeniorEngineer =>
                  HasListing(p_result'.listings, SeniorEngineer,
                             UrlJoin(NetflixUrl, SeniorEngineerPath))

(* C24: in scrape_company_jobs and in the generic Playwright branch a selector
   that raises adds no candidate and does not end the page: the result is the
   one of the same page read through the selectors that did not raise, in
   their order, and it carries no error *)
C24_FailingSelectorSkipped == [][C24_Step]_vars
C24_Witness ==
    /\ Len(served.doc) = 3 /\ served.doc[1].raises /\ ~served.doc[2].raises
    /\ served.doc[3] = Selector(<<SoftwareEngineerLink>>)
    /\ Len(scraped_data) = 1
    /\ scraped_data[1].company_name = <<"Netflix">>
    /\ Len(scraped_data[1].scraped_data.listings) = 2
    /\ scraped_data[1].scraped_data.error = None

-----------------------------------------------------------------------------
(* One company whose Listings come from several selectors, elements and pages:
   Foo (requests), Netflix (generic Playwright branch) or Google (pagination) *)
OrderPages ==
    { <<>>,
      <<Item(SeniorEngineer, BoardUrl),
        Item(SoftwareEngineer, <<"job", "s", "/", "results", "/", "2">>)>>,
      <<Item(SeniorEngineer, <<"job", "s", "/", "results", "/", "2">>),   \* other title
        Item(SeniorEngineer, <<"job", "s", "/", "results", "/", "3">>)>>,
      <<Item(DashedTitle, <<"job", "s", "/", "results", "/", "4">>)>> }

OrderDocs ==
    SeqsUpTo(SelectorOutcomes
                 \cup { Selector(<<Anchor(SoftwareEngineer, SeniorEngineerPath)>>) },
             MaxSelectors)                                   \* same link, other title

InitOrder ==
    /\ \/ /\ sheet \in { << <<Foo, FooUrl>> >>, << << <<"Netflix">>, NetflixUrl >> >> }
          /\ served \in { [kind |-> "ok", doc |-> d] : d \in OrderDocs }
       \/ /\ sheet = << << <<"Google">>, GoogleUrl >> >>
          /\ served = [kind |-> "ok", doc |-> <<>>]
    /\ companies_data = <<>>
    /\ DiscIdle
    /\ m_pc = "start" /\ m_i = 1 /\ scraped_data = <<>>
    /\ global_found_listings_ids = {}
    /\ p_pc = "idle" /\ p_company = None /\ browser = "none" /\ page_count = 0
    /\ listings = <<>> /\ current_processed_urls = {} /\ p_exit = "none"
    /\ p_result = None /\ p_wait = "none" /\ open_sessions = 0

NextOrder ==
    \/ MainStart
    \/ MainStaticServed
    \/ MainPlaywright
    \/ \E outcome \in LaunchOutcomes : PwLaunch(outcome)
    \/ \E outcome \in NavigateOutcomes : PwNavigate(outcome)
    \/ PwGenericServed
    \/ \E content \in PageContents(OrderPages), outcome \in NextOutcomes :
           PwGooglePage(content, outcome)
    \/ PwGoogleCap
    \/ \E close \in CloseOutcomes : PwFinish(close)
    \/ MainSave

SpecOrder == InitOrder /\ [][NextOrder]_vars

(* the candidates in the order the code meets them: the elements of the
   selectors in list order, each selector in document order, with the cleaned
   title and the resolved link *)
RECURSIVE DocumentOrder(_)
DocumentOrder(doc) ==
    IF doc = <<>> THEN <<>>
    ELSE (IF Head(doc).raises THEN <<>> ELSE Head(doc).elements)
         \o DocumentOrder(Tail(doc))
ElementStream(doc, company_url) ==
    [k \in 1..Len(DocumentOrder(doc)) |->
        [title |-> CleanTitle(DocumentOrder(doc)[k].text),
         url |-> ResolveLink(company_url, DocumentOrder(doc)[k].href)]]
ItemStream(items, company_url) ==
    [k \in 1..Len(items) |->
        [title |-> items[k].title, url |-> ResolveLink(company_url, items[k].link)]]
Position(stream, x) ==
    CHOOSE k \in 1..Len(stream) :
        stream[k] = x /\ \A j \in 1..(k - 1) : stream[j] # x
InOrder(ls, stream) ==
    /\ \A a \in 1..Len(ls) : \E k \in 1..Len(stream) : stream[k] = ls[a]
    /\ \A a, b \in 1..Len(ls) :
           a < b => Position(stream, ls[a]) < Position(stream, ls[b])
IsPrefix(s, t) == Len(s) <= Len(t) /\ SubSeq(t, 1, Len(s)) = s
GooglePageInOrder(content) ==
    /\ IsPrefix(listings, listings')
    /\ InOrder(SubSeq(listings', Len(listings) + 1, Len(listings')),
               ItemStream(content.items, GoogleUrl))
    /\ (p_pc' = "returning" /\ p_exit' # "exception") => p_result'.listings = listings'
C25_Step ==
    /\ MainStaticServed =>
           InOrder(scraped_data'[1].scraped_data.listings,
                   ElementStream(served.doc, FooUrl))
    /\ PwGenericServed =>
           /\ InOrder(listings', ElementStream(served.doc, NetflixUrl))
           /\ p_result'.listings = listings'
    /\ \A content \in PageContents(OrderPages), outcome \in NextOutcomes :
           PwGooglePage(content, outcome) => GooglePageInOrder(content)
    /\ PwGoogleCap => p_result'.listings = listings
    /\ \A close \in CloseOutcomes :
           (PwFinish(close) /\ m_pc' # "crashed") =>
               scraped_data'[1].scraped_data = p_result

(* C25: the Listings a scrape call returns are in the order the candidates
   were met, by selector, then by place in the document, then by page; a page
   appends to the Listings of the pages before it and nothing is reordered *)
C25_ExtractionOrder == [][C25_Step]_vars
C25_Witness ==
    /\ p_pc = "google_loop" /\ page_count = 2 /\ Len(listings) = 3
    /\ listings[1].url = BoardUrl
    /\ listings[3].title = SeniorEngineer

-----------------------------------------------------------------------------
(* Discovery for one company whose URL cell is any text of up to MaxUrlLen
   pieces: is_valid_url decides whether the cell is returned as it is *)
MaxUrlLen == 5
UrlPieces == {"https", ":", "/", "acme", "["}
UrlCells == SeqsUpTo(UrlPieces, MaxUrlLen) \ {<<>>}

InitUrl ==
    /\ sheet \in { << <<Acme, cell>> >> : cell \in UrlCells }
    /\ companies_data = <<>>
    /\ o_pc = "start" /\ o_i = 1 /\ discovered_pages = <<>>
    /\ d_pc = "idle" /\ d_q = 0 /\ d_resp = NoResponse /\ d_found = None
    /\ d_errors = 0 /\ net_log = <<>>
    /\ ScrapeIdle

NextUrl ==
    \/ OrchStart
    \/ OrchCall
    \/ OrchRecord
    \/ OrchSave

SpecUrl == InitUrl /\ [][NextUrl]_vars

(* the parse of the text: the pieces before the first ':' when they can be a
   scheme, and the authority between a leading '//' and the next '/' *)
ParsedScheme(s) ==
    IF \E c \in 2..Len(s) : s[c] = ":" /\ \A j \in 1..(c - 1) : s[j] \in {"https", "acme"}
    THEN SubSeq(s, 1, (CHOOSE c \in 2..Len(s) :
                          s[c] = ":" /\ \A j \in 1..(c - 1) : s[j] \in {"https", "acme"}) - 1)
    ELSE <<>>
AfterScheme(s) ==
    IF ParsedScheme(s) = <<>> THEN s ELSE SubSeq(s, Len(ParsedScheme(s)) + 2, Len(s))
ParsedAuthority(s) ==
    IF Len(AfterScheme(s)) >= 2 /\ AfterScheme(s)[1] = "/" /\ AfterScheme(s)[2] = "/"
    THEN IF \E k \in 3..Len(AfterScheme(s)) : AfterScheme(s)[k] = "/"
         THEN SubSeq(AfterScheme(s), 3,
                     (CHOOSE k \in 3..Len(AfterScheme(s)) :
                         /\ AfterScheme(s)[k] = "/"
                         /\ \A j \in 3..(k - 1) : AfterScheme(s)[j] # "/") - 1)
         ELSE SubSeq(AfterScheme(s), 3, Len(AfterScheme(s)))
    ELSE <<>>
ParseFails(s) == \E k \in 1..Len(ParsedAuthority(s)) : ParsedAuthority(s)[k] = "["
UrlCell == sheet[1][2]
CellJudgedValid == d_pc = "returned" /\ d_q = 0 /\ d_found = UrlCell

(* C26: is_valid_url is true for every text that parses with a non-empty
   scheme and a non-empty authority, false for every text that lacks one of
   them, and false, not an exception, for a text urlparse rejects *)
C26_IsValidUrl ==
    (o_pc = "loop" /\ d_pc # "idle") =>
        /\ d_pc \in {"returned", "searching"}
        /\ (~ParseFails(UrlCell) /\ ParsedScheme(UrlCell) # <<>>
                /\ ParsedAuthority(UrlCell) # <<>>) => CellJudgedValid
        /\ (ParseFails(UrlCell) \/ ParsedScheme(UrlCell) = <<>>
                \/ ParsedAuthority(UrlCell) = <<>>) => d_pc = "searching"
C26_Witness ==
    /\ o_pc = "loop" /\ d_pc = "searching"
    /\ UrlCell = <<"https", ":", "/", "/", "[">>

-----------------------------------------------------------------------------
(* C27: get_base_domain gives the registrable domain: for a result link whose
   host is www.sub.example.com it gives example.com *)
C27_BaseDomainRegistrable ==
    (d_q > 0 /\ d_resp.kind = "ok") =>
        \A j \in 1..Len(d_resp.links) :
            (KeywordTest(Lower(d_resp.links[j]))
                 /\ UrlNetloc(d_resp.links[j]) = <<"www.", "sub", ".", "example", ".com">>)
                => get_base_domain(d_resp.links[j]) = <<"example", ".com">>

-----------------------------------------------------------------------------
(* the candidates of the page served to the two calls on Foo, and those of
   them that pass the test of line 157 in the first call: the set of ids is
   empty at its start, and no element before has the same link *)
TwiceCandidates ==
    IF served.kind = "ok" THEN ElementStream(served.doc, FooUrl) ELSE <<>>
PassesDedupInFirstCall(k) ==
    \A j \in 1..(k - 1) : TwiceCandidates[j].url # TwiceCandidates[k].url

(* C28: a candidate that passes the dedup test has its id in
   global_found_listings_ids from that step on, whether or not the keyword
   tests and the link test drop it afterwards *)
C28_KeyInsertedAtDedupStep ==
    Len(scraped_data) >= 1 =>
        \A k \in 1..Len(TwiceCandidates) :
            PassesDedupInFirstCall(k) =>
                job_id_of(TwiceCandidates[k].title, TwiceCandidates[k].url)
                    \in global_found_listings_ids

-----------------------------------------------------------------------------
(* a title as the cleanup of lines 146-150 is meant to leave it *)
TitleIsClean(title) ==
    /\ title # <<>> =>
           /\ Head(title) \notin {":", "-", " "}
           /\ title[Len(title)] \notin {":", "-", " "}
    /\ Len(Split(title)) >= 2 => Lower(Split(title)[1]) # Lower(Split(title)[2])
AllTitlesClean(ls) == \A k \in 1..Len(ls) : TitleIsClean(ls[k].title)

(* C29: on every extraction path the title is cleaned before the id is built:
   no Listing of a static, generic, Google or ServiceNow call has a title that
   begins or ends with ':', '-' or a space, or whose first two tokens are
   equal ignoring case *)
C29_CleanupOnEveryPath ==
    /\ AllTitlesClean(listings)
    /\ \A n \in 1..Len(scraped_data) : AllTitlesClean(scraped_data[n].scraped_data.listings)

-----------------------------------------------------------------------------
NoDoubledSpace(title) ==
    \A k \in 1..(Len(title) - 1) : ~(title[k] = " " /\ title[k + 1] = " ")

(* C30: a cleaned title has no two adjacent spaces, whatever the runs of
   spaces in the text of the element, runs of three or more included *)
C30_NoDoubledSpaces ==
    FilterDone =>
        /\ \A k \in 1..Len(ServedElements) :
               NoDoubledSpace(CleanTitle(ServedElements[k].text))
        /\ \A k \in 1..Len(FilterOutput) : NoDoubledSpace(FilterOutput[k].title)

-----------------------------------------------------------------------------
(* The orchestration over a roster of several rows, some with a blank name *)
MaxRosterRows == 3
RosterRows ==
    { <<Acme, KnownAcmeUrl>>, <<Foo, <<>>>>, <<<<" ">>, KnownAcmeUrl>> }
RosterSheets == SeqsUpTo(RosterRows, MaxRosterRows)
RosterResponses ==
    { [kind |-> "ok", links |-> <<LinkFooOpen>>],
      [kind |-> "ok", links |-> <<LinkUnrelated>>],
      [kind |-> "RequestException", links |-> <<>>] }

InitRoster ==
    /\ sheet \in RosterSheets
    /\ companies_data = <<>>
    /\ o_pc = "start" /\ o_i = 1 /\ discovered_pages = <<>>
    /\ d_pc = "idle" /\ d_q = 0 /\ d_resp = NoResponse /\ d_found = None
    /\ d_errors = 0 /\ net_log = <<>>
    /\ ScrapeIdle

NextRoster ==
    \/ OrchStart
    \/ OrchCall
    \/ \E resp \in RosterResponses : DiscQuery(resp)
    \/ DiscExhausted
    \/ OrchRecord
    \/ OrchSave

SpecRoster == InitRoster /\ [][NextRoster]_vars

(* the names of the rows of the sheet that have one, in the order of the sheet *)
NamedRows == SelectSeq(sheet, LAMBDA row : \E k \in 1..Len(row[1]) : row[1][k] # " ")
EntryWellFormed(entry) ==
    /\ entry.status = "SUCCESS" <=> entry.career_page_url # None
    /\ entry.status # "SUCCESS" => entry.status = "FAILED_DISCOVERY"

(* C31: the discovery output holds one entry for each row that has a company
   name, in the order of the rows, and none for a row without a name; the
   status of an entry is SUCCESS exactly when its career_page_url is not null,
   and FAILED_DISCOVERY otherwise *)
C31_OneEntryPerNamedRecord ==
    /\ Len(discovered_pages) <= Len(NamedRows)
    /\ \A k \in 1..Len(discovered_pages) :
           /\ discovered_pages[k].company_name = Strip(NamedRows[k][1], Whitespace)
           /\ EntryWellFormed(discovered_pages[k])
    /\ (o_pc = "loop" /\ d_pc = "idle") => Len(discovered_pages) = o_i - 1
    /\ o_pc = "done" => Len(discovered_pages) = Len(NamedRows)
C31_Witness ==
    /\ o_pc = "done"
    /\ Len(sheet) = 3 /\ sheet[2][1] = <<" ">>
    /\ Len(discovered_pages) = 2
    /\ discovered_pages[1].company_name = Foo
    /\ discovered_pages[1].status = "FAILED_DISCOVERY"
    /\ discovered_pages[2].company_name = Acme
    /\ discovered_pages[2].status = "SUCCESS"

-----------------------------------------------------------------------------
(* the Listings of the call in progress: those it has appended so far, or,
   once it has reached its return statement, those of the result it returns *)
ListingsOfCall == IF p_pc = "returning" THEN p_result.listings ELSE listings
ReturnedKeys ==
    (UNION { UnitKeys(n) : n \in 1..Len(scraped_data) }) \cup KeysOf(ListingsOfCall)

(* C32: at every point of a run each id in global_found_listings_ids is the id
   of a Listing in the result of the call that added it; a call that ends with
   an error after it appended Listings leaves none of its ids behind *)
C32_IndexKeysHaveListings ==
    m_pc # "crashed" => global_found_listings_ids \subseteq ReturnedKeys

-----------------------------------------------------------------------------
UrlsDistinct(ls) ==
    \A a, b \in 1..Len(ls) :
        (a # b /\ ls[a].url # None) => ls[a].url # ls[b].url
SameLinkOtherTitle(ls, stream) ==
    \E a \in 1..Len(ls), k \in 1..Len(stream) :
        stream[k].url = ls[a].url /\ stream[k].title # ls[a].title

(* C33: in the result of one scrape call no two Listings have the same
   non-null URL, under different titles, from different selectors or from
   different pages of the Google loop *)
C33_UrlsDistinctInResult ==
    /\ UrlsDistinct(listings)
    /\ p_pc = "returning" => UrlsDistinct(p_result.listings)
    /\ \A n \in 1..Len(scraped_data) : UrlsDistinct(scraped_data[n].scraped_data.listings)
C33_Witness ==
    /\ p_pc = "google_loop" /\ page_count = 2 /\ Len(listings) = 3
    /\ listings[2] = [title |-> SoftwareEngineer,
                      url |-> UrlJoin(GoogleUrl, <<"job", "s", "/", "results", "/", "2">>)]
    /\ listings[3] = [title |-> SeniorEngineer,
                      url |-> UrlJoin(GoogleUrl, <<"job", "s", "/", "results", "/", "3">>)]

-----------------------------------------------------------------------------
(* C34: every keyword of job_keywords can admit a Listing: a title that holds
   it passes both keyword tests, and the first candidate of a page, titled
   "Designer" or "Researcher" and linked to /jobs/<n>, is emitted *)
C34_EveryKeywordAdmits ==
    FilterDone =>
        /\ \A keyword \in job_keywords : ~AnyKeywordIn(excluded_keywords, keyword)
        /\ (ServedElements # <<>> /\ ServedElements[1].text \in {Designer, Researcher}) =>
               HasListing(FilterOutput, ServedElements[1].text,
                          ResolveLink(AcmeSiteUrl, ServedElements[1].href))

====
